---- MODULE Spec2Model ----
(***************************************************************************)
(* Model of the setup-aws provisioning pipeline of static-site-creator:    *)
(* lib/commands/setup-aws.js (execute), lib/services/aws.js (the step      *)
(* functions) and the setup-aws action of bin/ssc.js.                      *)
(*                                                                         *)
(* One process runs the command up to MaxRuns times against one stored     *)
(* site configuration.  Every remote call is one action whose outcome      *)
(* (success, error, remote status) is chosen by the environment.           *)
(* Resources created by run r are identified by the number r; 0 is         *)
(* null/undefined.                                                         *)
(*                                                                         *)
(* Spec and FairSpec are the pipeline; there the account's answers to the  *)
(* OIDC provider commands are unconstrained.  SpecOidc runs                *)
(* createOrGetGithubOidcProvider several times against one account whose   *)
(* providers are tracked.  SpecWait runs the two certificate wait loops    *)
(* and SpecNames the resource names of several runs.                       *)
(*                                                                         *)
(* The other commands have specifications of their own: SpecGithub is      *)
(* setup-github with the GitHub token functions, SpecAuth the device flow  *)
(* of lib/services/github-oauth.js, SpecLogger the spinner instances of    *)
(* utils/logger.js, SpecCreate and FairCreate the create and deploy        *)
(* actions of bin/ssc.js with lib/commands/deploy.js.                      *)
(***************************************************************************)
EXTENDS Integers, Sequences, FiniteSets, TLC

\* ---------------------------------------------------------------- bounds
\* invocations of the command against the same stored configuration
MaxRuns == 2
\* OIDC providers the account lists
MaxProviders == 2
\* DomainValidationOptions one DescribeCertificate answer carries
MaxValidationOptions == 2
\* consecutive createOrGetGithubOidcProvider calls against one account
MaxCalls == 2

\* ------------------------------------------------------ program constants
\* getCertificateValidationRecords: const maxRetries = 5
maxRetries == 5
\* waitForCertificateValidation: maxWaitMinutes = 15 (default parameter)
maxWaitMinutes == 15
\* waitForCertificateValidation: const maxAttempts = maxWaitMinutes * 2
maxAttempts == maxWaitMinutes * 2

NoDomain == ""
Domains == {"example.com"}
null == 0

VARIABLES
    pc,                  \* position of the process in the command
    run,                 \* number of setup-aws invocations started so far
    stored,              \* the persisted site configuration (config store)
    siteConfig,          \* execute: let siteConfig (in-memory copy)
    options,             \* the command options (options.domain)
    awsInfo,             \* execute: const awsInfo = collectAwsInfo(...)
    bucketResult,        \* execute: const bucketResult
    hostedZoneResult,    \* execute: let hostedZoneResult
    certificateResult,   \* execute: let certificateResult
    validationRecords,   \* getCertificateValidationRecords: let validationRecords
    retries,             \* getCertificateValidationRecords: let retries
    functionCreated,     \* createCloudfrontFunction: createResponse (CreateFunction succeeded)
    functionResult,      \* execute: const functionResult
    attempts,            \* waitForCertificateValidation: let attempts
    certificateValidated,\* execute: let certificateValidated
    waitOutcome,         \* how the issuance wait ended (what the remote side showed)
    distConfig,          \* the DistributionConfig submitted by this run (<<>> if none)
    distributionResult,  \* execute: let distributionResult
    policyResult,        \* execute: const policyResult
    oidc,                \* createOrGetGithubOidcProvider: lookup pass, providers listed / left
    providerArn,         \* createOrGetGithubOidcProvider: let providerArn
    roleCreated,         \* createIamRole: roleResponse (CreateRole succeeded)
    roleResult,          \* execute: const roleResult
    steps,               \* the step functions called by this run, in call order
    calls,               \* the remote commands sent by this run
    requests,            \* the payloads of the commands of this run that carry a document
    warned,              \* the warnings and failure messages logged in this run
    saveCount,           \* number of config.saveSiteConfig calls of this run
    exitCode,            \* process exit code of the last finished run (-1: none yet)
    account,             \* the OIDC providers of the AWS account (tracked in SpecOidc only)
    results,             \* what the finished createOrGetGithubOidcProvider calls returned
    lookupFailed,        \* a list or get command of the current lookup pass failed
    createOutcome,       \* how the create command of the current call ended
    checks,              \* describe commands the current wait loop has sent (SpecWait only)
    sleeps,              \* interval sleeps the current wait loop has taken
    errors,              \* describe commands of the current wait loop that failed
    lastAnswer,          \* what the last describe command of the wait loop answered
    logger,              \* utils/logger.js: the live spinner and what was notified
    clock,               \* Date.now() of the last execute call (SpecNames only)
    used,                \* the resource names the execute calls so far have used
    gh,                  \* setup-github.js execute: its position and locals (SpecGithub only)
    keychain,            \* keytar: the entry stored for the user (SpecGithub, SpecAuth)
    auth,                \* github-oauth.js: the locals of one call (SpecAuth only)
    ora,                 \* utils/logger.js: the ora instances (SpecLogger only)
    cli                  \* bin/ssc.js create / deploy: stages and exit code (SpecCreate only)

vars == << pc, run, stored, siteConfig, options, awsInfo, bucketResult,
           hostedZoneResult, certificateResult, validationRecords, retries,
           functionCreated, functionResult, attempts, certificateValidated,
           waitOutcome, distConfig, distributionResult, policyResult, oidc,
           providerArn, roleCreated, roleResult, steps, calls, requests,
           warned, saveCount, exitCode, account, results, lookupFailed,
           createOutcome, checks, sleeps, errors, lastAnswer, logger,
           clock, used, gh, keychain, auth, ora, cli >>

\* what SpecOidc tracks about the account and the calls made against it; the
\* pipeline specification leaves the account's answers unconstrained
oidcEnv == << account, results, lookupFailed, createOutcome >>

\* what SpecWait counts about one wait loop
waitEnv == << checks, sleeps, errors, lastAnswer >>

\* what SpecNames tracks about the names of several execute calls
nameEnv == << clock, used >>

\* the other commands and services: setup-github, the GitHub device flow,
\* the logger's spinner instances, the create and deploy commands
cliEnv == << gh, keychain, auth, ora, cli >>

\* a command or service that the specification at hand does not run
NotRun == "not run"

\* the local state of one execute() call
locals == << bucketResult, hostedZoneResult, certificateResult, validationRecords,
             retries, functionCreated, functionResult, attempts,
             certificateValidated, waitOutcome, distConfig, distributionResult,
             policyResult, oidc, providerArn, roleCreated, roleResult, requests >>

\* JavaScript truthiness of a domain string (undefined and '' are falsy)
Truthy(d) == d # NoDomain

\* a || b on domain strings
Or(a, b) == IF Truthy(a) THEN a ELSE b

\* the site configuration written by `ssc init` (and `ssc setup-github`)
InitialConfigs ==
    [ exists : BOOLEAN, domain : {NoDomain} \cup Domains, hasRepo : BOOLEAN,
      s3Bucket : {null}, route53HostedZoneId : {null}, acmCertificateArn : {null},
      cloudfrontFunctionArn : {null}, cloudfrontDistribution : {null} ]

\* collectAwsInfo: domain: options.domain || siteConfig.domain || answers.domain
collectAwsInfo(opts, cfg, answers) ==
    [ domain |-> Or(opts.domain, Or(cfg.domain, answers.domain)) ]

\* collectAwsInfo asks the domain question only if neither source has one
DomainQuestionAsked(opts, cfg) == ~Truthy(opts.domain) /\ ~Truthy(cfg.domain)

\* createOrGetGithubOidcProvider has not listed any provider
NoLookup == [ pass |-> 0, listed |-> 0, left |-> 0 ]

\* getCertificateValidationRecords: let validationRecords = null
NoRecords == << >>

\* no command with a document has been sent
NoRequests ==
    [ validation |-> << >>, bucketPolicy |-> << >>, alias |-> << >>,
      iamPolicy |-> << >>, trustPolicy |-> << >> ]

\* createS3Bucket, lines 98-102: the result object of bucket b
Bucket(b) == [ bucketName |-> b, bucketArn |-> << "arn:aws:s3:::", b >> ]

\* createHostedZone, lines 183-186: the result object of hosted zone z
HostedZone(z) ==
    [ hostedZoneId |-> << "/hostedzone/", z >>, nameServers |-> << "ns", z >> ]

\* createCloudFrontDistribution, lines 901-905: the result object of distribution d
Distribution(d) ==
    [ distributionId |-> << "id", d >>,
      distributionArn |-> << "arn:aws:cloudfront", d >>,
      distributionDomain |-> << d, ".cloudfront.net" >> ]

\* hostedZoneId.replace(/^\/hostedzone\//, '')
StripHostedZonePrefix(id) ==
    IF Len(id) > 0 /\ id[1] = "/hostedzone/" THEN Tail(id) ELSE id

\* ------------------------------------------------------- utils/logger.js
\* The module keeps one spinner (let spinner = null).  The model keeps the
\* step function that started the live spinner, how many succeed / fail
\* notifications each step function has emitted, and the step functions whose
\* live spinner was stopped by the next startSpinner without any of the two.
StepNames ==
    {"createS3Bucket", "createHostedZone", "requestCertificate",
     "getCertificateValidationRecords", "createDnsValidationRecords",
     "createCloudfrontFunction", "waitForCertificateValidation",
     "createCloudFrontDistribution", "updateS3BucketPolicy",
     "createCloudFrontDnsRecords", "createIamPolicy", "createIamRole",
     "createOrGetGithubOidcProvider", "createWorkflowFile"}

NoSpinner == "none"

FreshLogger ==
    [ spinner |-> NoSpinner, terminals |-> [ f \in StepNames |-> 0 ], replaced |-> {} ]

\* startSpinner: a live spinner is stopped (spinner.stop()) and replaced
startSpinner(L, by) ==
    [ L EXCEPT !.spinner = by,
               !.replaced = IF L.spinner # NoSpinner THEN @ \cup {L.spinner} ELSE @ ]

\* succeed: the spinner ends with its mark, or the mark is printed as a line
succeed(L, by) ==
    [ L EXCEPT !.spinner = NoSpinner, !.terminals[by] = @ + 1 ]

\* fail: the same with the failure mark
fail(L, by) ==
    [ L EXCEPT !.spinner = NoSpinner, !.terminals[by] = @ + 1 ]

\* info: a live spinner is stopped, the line printed, and a spinner with the
\* same text started again
loggerInfo(L, by) == L

\* warn: as info
warn(L, by) == L

\* error: a live spinner is stopped and dropped, the line printed
error(L, by) == [ L EXCEPT !.spinner = NoSpinner ]

\* one call of a logger function made by a step function (or by execute)
Called(fn, by) == << [ fn |-> fn, by |-> by ] >>

LoggerAfter(L, c) ==
    CASE c.fn = "startSpinner" -> startSpinner(L, c.by)
      [] c.fn = "succeed" -> succeed(L, c.by)
      [] c.fn = "fail" -> fail(L, c.by)
      [] c.fn = "info" -> loggerInfo(L, c.by)
      [] c.fn = "warn" -> warn(L, c.by)
      [] c.fn = "error" -> error(L, c.by)

RECURSIVE Logged(_, _)
Logged(L, cs) == IF cs = << >> THEN L ELSE Logged(LoggerAfter(L, Head(cs)), Tail(cs))

\* the logger calls a handler makes, in order
Logs(cs) == logger' = Logged(logger, cs)

\* the catch block every step function ends with: logger.fail, logger.error
Caught(f) == Called("fail", f) \o Called("error", f)

\* a step function with one command: startSpinner, then succeed (and the
\* info lines that follow it) or the catch block
StepCalls(f, ok, infos) ==
    Called("startSpinner", f)
      \o (IF ok THEN Called("succeed", f) \o infos ELSE Caught(f))

\* the logger after the step functions in ran have each started a spinner
\* and ended it
LoggerWhenAllEnded(ran) ==
    [ FreshLogger EXCEPT !.terminals = [ f \in StepNames |-> IF f \in ran THEN 1 ELSE 0 ] ]

InitPipeline ==
    /\ pc = "idle"
    /\ run = 0
    /\ stored \in { c \in InitialConfigs : ~c.exists => (c.domain = NoDomain /\ ~c.hasRepo) }
    /\ siteConfig = stored
    /\ options = [ domain |-> NoDomain ]
    /\ awsInfo = [ domain |-> NoDomain ]
    /\ bucketResult = null
    /\ hostedZoneResult = null
    /\ certificateResult = null
    /\ validationRecords = NoRecords
    /\ retries = 0
    /\ functionCreated = null
    /\ functionResult = null
    /\ attempts = 0
    /\ certificateValidated = TRUE
    /\ waitOutcome = "none"
    /\ distConfig = << >>
    /\ distributionResult = null
    /\ policyResult = null
    /\ oidc = NoLookup
    /\ providerArn = null
    /\ roleCreated = null
    /\ roleResult = null
    /\ steps = << >>
    /\ calls = {}
    /\ requests = NoRequests
    /\ warned = {}
    /\ saveCount = 0
    /\ exitCode = -1
    /\ account = << >>
    /\ results = << >>
    /\ lookupFailed = FALSE
    /\ createOutcome = "none"
    /\ checks = 0
    /\ sleeps = 0
    /\ errors = 0
    /\ lastAnswer = "none"
    /\ logger = FreshLogger
    /\ clock = 0
    /\ used = {}

\* only setup-aws runs
OthersNotRun ==
    /\ gh = NotRun
    /\ keychain = NotRun
    /\ auth = NotRun
    /\ ora = NotRun
    /\ cli = NotRun

Init == InitPipeline /\ OthersNotRun

\* execute, lines 18-42: load the configuration, collect the AWS information
AfterLoad(cfg) == IF cfg.exists THEN "bucket" ELSE "thrown"

StartRun ==
    /\ pc \in {"idle", "exited"}
    /\ run < MaxRuns
    /\ \E d \in {NoDomain} \cup Domains, a \in {NoDomain} \cup Domains :
         /\ options' = [ domain |-> d ]
         /\ awsInfo' = IF stored.exists
                         THEN collectAwsInfo([domain |-> d], stored,
                                [domain |-> IF DomainQuestionAsked([domain |-> d], stored)
                                              THEN a ELSE NoDomain])
                         ELSE [ domain |-> NoDomain ]
    /\ run' = run + 1
    /\ siteConfig' = stored
    /\ pc' = AfterLoad(stored)
    /\ bucketResult' = null
    /\ hostedZoneResult' = null
    /\ certificateResult' = null
    /\ validationRecords' = NoRecords
    /\ retries' = 0
    /\ functionCreated' = null
    /\ functionResult' = null
    /\ attempts' = 0
    /\ certificateValidated' = TRUE
    /\ waitOutcome' = "none"
    /\ distConfig' = << >>
    /\ distributionResult' = null
    /\ policyResult' = null
    /\ oidc' = NoLookup
    /\ providerArn' = null
    /\ roleCreated' = null
    /\ roleResult' = null
    /\ steps' = << >>
    /\ calls' = {}
    /\ requests' = NoRequests
    /\ warned' = {}
    /\ saveCount' = 0
    /\ exitCode' = -1
    /\ logger' = Logged(FreshLogger, Called(IF stored.exists THEN "info" ELSE "error", "execute"))
    /\ UNCHANGED stored
    /\ UNCHANGED << oidcEnv, waitEnv, nameEnv, cliEnv >>


\* a step function of lib/services/aws.js is entered / a remote command is sent
Enter(step) == steps' = Append(steps, step)
Send(cmd) == calls' = calls \cup {cmd}
Warn(msg) == warned' = warned \cup {msg}

\* result object of a step function: the run's resource on success, else null
Result(ok) == IF ok THEN run ELSE null

\* mutant: a failed bucket creation does not stop the run
AfterBucketContinues(result) == "zone"

\* execute, lines 44-49: 1. Create S3 bucket; a null result throws
AfterBucket(result) == IF result = null THEN "thrown" ELSE "zone"

CreateS3Bucket ==
    /\ pc = "bucket"
    /\ \E ok \in BOOLEAN :
         /\ bucketResult' = Result(ok)
         /\ pc' = AfterBucket(Result(ok))
         /\ Logs(StepCalls("createS3Bucket", ok, << >>)
                   \o (IF ok THEN << >> ELSE Called("error", "execute")))
    /\ Enter("createS3Bucket")
    /\ Send("CreateBucket")
    /\ UNCHANGED << run, stored, siteConfig, options, awsInfo, hostedZoneResult,
                    certificateResult, validationRecords, retries, functionCreated,
                    functionResult, attempts, certificateValidated, waitOutcome,
                    distConfig, distributionResult, policyResult, oidc,
                    providerArn, roleCreated, roleResult, requests,
                    warned, saveCount, exitCode >>
    /\ UNCHANGED << oidcEnv, waitEnv, nameEnv, cliEnv >>

\* execute, lines 51-64: 2. Create Route53 hosted zone, if (awsInfo.domain)
HostedZoneWanted(domain) == Truthy(domain)

CreateHostedZone ==
    /\ pc = "zone"
    /\ HostedZoneWanted(awsInfo.domain)
    /\ \E ok \in BOOLEAN :
         /\ hostedZoneResult' = Result(ok)
         /\ warned' = IF ok THEN warned ELSE warned \cup {"Failed to create Route53 hosted zone"}
         /\ Logs(StepCalls("createHostedZone", ok, Called("info", "createHostedZone"))
                   \o Called(IF ok THEN "info" ELSE "warn", "execute"))
    /\ Enter("createHostedZone")
    /\ Send("CreateHostedZone")
    /\ pc' = "cert"
    /\ UNCHANGED << run, stored, siteConfig, options, awsInfo, bucketResult,
                    certificateResult, validationRecords, retries, functionCreated,
                    functionResult, attempts, certificateValidated, waitOutcome,
                    distConfig, distributionResult, policyResult, oidc,
                    providerArn, roleCreated, roleResult, requests,
                    saveCount, exitCode >>
    /\ UNCHANGED << oidcEnv, waitEnv, nameEnv, cliEnv >>

SkipHostedZone ==
    /\ pc = "zone"
    /\ ~HostedZoneWanted(awsInfo.domain)
    /\ Warn("No domain specified. Skipping Route53 setup.")
    /\ Logs(Called("warn", "execute"))
    /\ pc' = "cert"
    /\ UNCHANGED << run, stored, siteConfig, options, awsInfo, locals, steps, calls,
                    saveCount, exitCode >>
    /\ UNCHANGED << oidcEnv, waitEnv, nameEnv, cliEnv >>

\* execute, lines 66-108: 3. Request ACM certificate
\* mutant: the certificate is requested whether or not a domain is given
CertificateAlwaysWanted(domain) == TRUE

CertificateWanted(domain) == Truthy(domain)

\* mutant: the issuance wait follows the certificate request directly
AfterCertificateWaits(cert, zone) ==
    IF cert # null THEN (IF zone # null THEN "valrec" ELSE "wait") ELSE "function"

\* after requestCertificate: validation records are fetched only on the
\* branch with a hosted zone (lines 68-96), not on the one without (97-105)
AfterCertificate(cert, zone) ==
    IF cert # null /\ zone # null THEN "valrec" ELSE "function"

RequestCertificate ==
    /\ pc = "cert"
    /\ CertificateWanted(awsInfo.domain)
    /\ \E ok \in BOOLEAN :
         /\ certificateResult' = Result(ok)
         /\ pc' = AfterCertificate(Result(ok), hostedZoneResult)
         /\ warned' = IF ok THEN warned ELSE warned \cup {"Failed to request ACM certificate"}
         /\ Logs(StepCalls("requestCertificate", ok, Called("info", "requestCertificate"))
                   \o (IF ok /\ hostedZoneResult # null THEN << >>
                       ELSE Called(IF ok THEN "info" ELSE "warn", "execute")))
    /\ Enter("requestCertificate")
    /\ Send("RequestCertificate")
    /\ UNCHANGED << run, stored, siteConfig, options, awsInfo, bucketResult,
                    hostedZoneResult, validationRecords, retries, functionCreated,
                    functionResult, attempts, certificateValidated, waitOutcome,
                    distConfig, distributionResult, policyResult, oidc,
                    providerArn, roleCreated, roleResult, requests,
                    saveCount, exitCode >>
    /\ UNCHANGED << oidcEnv, waitEnv, nameEnv, cliEnv >>

SkipCertificate ==
    /\ pc = "cert"
    /\ ~CertificateWanted(awsInfo.domain)
    /\ Warn("No domain specified. Skipping ACM certificate request.")
    /\ Logs(Called("warn", "execute"))
    /\ pc' = "function"
    /\ UNCHANGED << run, stored, siteConfig, options, awsInfo, locals, steps, calls,
                    saveCount, exitCode >>
    /\ UNCHANGED << oidcEnv, waitEnv, nameEnv, cliEnv >>

\* getCertificateValidationRecords: one pass of the while loop (lines 240-274)
\* followed, when the loop ends, by the function's return and execute's
\* branch on it (lines 80-95).  A describe error counts like "no records yet".
\* A DescribeCertificate answer is the list of DomainValidationOptions, each
\* with (TRUE) or without (FALSE) its ResourceRecord.
ValidationOptions == UNION { [ 1..n -> BOOLEAN ] : n \in 0..MaxValidationOptions }

RecordPollOutcomes ==
    { o \in [ error : BOOLEAN, options : ValidationOptions ] :
        o.error => o.options = << >> }

\* lines 255-261: the record made of the i-th option's ResourceRecord
ValidationRecord(i) ==
    [ name |-> << "_acm", i >>, type |-> "CNAME", value |-> << "acm-validations", i >> ]

\* lines 254-263: map each option to its record or null, filter the nulls out
RECURSIVE MapAndFilter(_, _)
MapAndFilter(opts, i) ==
    IF i > Len(opts) THEN << >>
    ELSE (IF opts[i] THEN << ValidationRecord(i) >> ELSE << >>) \o MapAndFilter(opts, i + 1)

\* lines 250-252: records are taken only when the first option has its record
RecordsOf(outcome) ==
    IF ~outcome.error /\ Len(outcome.options) > 0 /\ outcome.options[1]
      THEN MapAndFilter(outcome.options, 1)
      ELSE NoRecords

\* mutant: the poll gives up one pass early
RecordPollEndsEarly(records, n) == records # NoRecords \/ n + 2 >= maxRetries

RecordPollEnds(records, n) == records # NoRecords \/ n + 1 >= maxRetries

\* lines 270-273: retries++ and the 5 s sleep follow every pass that did
\* not break out with records
SleepsAfterPoll(records) == records = NoRecords

\* one pass of the loop whose describe command answers with outcome
GetCertificateValidationRecordsReturning(outcome) ==
    /\ pc = "valrec"
    /\ retries < maxRetries /\ validationRecords = NoRecords
    /\ validationRecords' = RecordsOf(outcome)
    /\ IF RecordPollEnds(RecordsOf(outcome), retries)
         THEN /\ retries' = 0
              /\ pc' = IF RecordsOf(outcome) # NoRecords THEN "dnsval" ELSE "function"
              /\ warned' = IF RecordsOf(outcome) # NoRecords THEN warned
                           ELSE warned \cup {"Certificate validation records not available yet"}
         ELSE /\ retries' = retries + 1
              /\ pc' = "valrec"
              /\ UNCHANGED warned
    /\ steps' = IF retries = 0 THEN Append(steps, "getCertificateValidationRecords") ELSE steps
    /\ Logs((IF retries = 0
               THEN Called("startSpinner", "getCertificateValidationRecords") ELSE << >>)
            \o (IF ~RecordPollEnds(RecordsOf(outcome), retries) THEN << >>
                ELSE IF RecordsOf(outcome) # NoRecords
                  THEN Called("succeed", "getCertificateValidationRecords")
                  ELSE Called("warn", "getCertificateValidationRecords")
                         \o Called("warn", "execute")))
    /\ Send("DescribeCertificate")
    /\ UNCHANGED << run, stored, siteConfig, options, awsInfo, bucketResult,
                    hostedZoneResult, certificateResult, functionCreated,
                    functionResult, attempts, certificateValidated, waitOutcome,
                    distConfig, distributionResult, policyResult, oidc,
                    providerArn, roleCreated, roleResult, requests,
                    saveCount, exitCode >>

GetCertificateValidationRecords ==
    /\ \E outcome \in RecordPollOutcomes : GetCertificateValidationRecordsReturning(outcome)
    /\ UNCHANGED << oidcEnv, waitEnv, nameEnv, cliEnv >>

\* mutant: only the first validation record is written
ValidationChangesFirstOnly(hostedZoneId, records) ==
    [ HostedZoneId |-> StripHostedZonePrefix(hostedZoneId),
      Changes |-> << [ Action |-> "UPSERT", Name |-> records[1].name,
                       Type |-> records[1].type, TTL |-> 300,
                       Value |-> records[1].value ] >> ]

\* createDnsValidationRecords, lines 368-392: one UPSERT per validation record
ValidationChanges(hostedZoneId, records) ==
    [ HostedZoneId |-> StripHostedZonePrefix(hostedZoneId),
      Changes |-> [ i \in 1..Len(records) |->
                      [ Action |-> "UPSERT", Name |-> records[i].name,
                        Type |-> records[i].type, TTL |-> 300,
                        Value |-> records[i].value ] ] ]

\* groups of variables left alone together
runState == << run, stored, siteConfig, options, awsInfo, saveCount, exitCode >>
dnsLocals == << bucketResult, hostedZoneResult, certificateResult, validationRecords, retries >>
cdnLocals == << functionCreated, functionResult, attempts, certificateValidated,
                waitOutcome, distConfig, distributionResult >>
iamLocals == << policyResult, oidc, providerArn, roleCreated, roleResult >>

\* execute, lines 81-92: createDnsValidationRecords in the new hosted zone
CreateDnsValidationRecords ==
    /\ pc = "dnsval"
    /\ \E ok \in BOOLEAN :
         /\ warned' = IF ok THEN warned ELSE warned \cup {"Failed to create DNS validation records"}
         /\ Logs(StepCalls("createDnsValidationRecords", ok,
                            Called("info", "createDnsValidationRecords"))
                   \o Called(IF ok THEN "info" ELSE "warn", "execute"))
    /\ Enter("createDnsValidationRecords")
    /\ Send("ChangeResourceRecordSets(validation)")
    /\ requests' = [ requests EXCEPT !.validation =
                       << ValidationChanges(HostedZone(hostedZoneResult).hostedZoneId,
                                            validationRecords) >> ]
    /\ pc' = "function"
    /\ UNCHANGED << runState, dnsLocals, cdnLocals, iamLocals >>
    /\ UNCHANGED << oidcEnv, waitEnv, nameEnv, cliEnv >>

\* mutant: the distribution is created whether or not the function exists
AfterFunctionSoft(fn, domain, cert) ==
    IF Truthy(domain) /\ cert # null THEN "wait" ELSE "dist"

\* execute, lines 110-138: after createCloudfrontFunction returned.  Without a
\* function the distribution is skipped; with a domain and a certificate the
\* issuance wait runs before the distribution is created.
AfterFunction(fn, domain, cert) ==
    IF fn = null THEN "iam"
    ELSE IF Truthy(domain) /\ cert # null THEN "wait" ELSE "dist"

FunctionWarnings(fn) ==
    IF fn = null
      THEN {"Failed to create CloudFront function",
            "CloudFront function not created. Skipping CloudFront distribution setup."}
      ELSE {}

\* createCloudfrontFunction, lines 503-518: CreateFunctionCommand
CreateCloudfrontFunction ==
    /\ pc = "function"
    /\ Enter("createCloudfrontFunction")
    /\ Send("CreateFunction")
    /\ \E ok \in BOOLEAN :
         /\ functionCreated' = Result(ok)
         /\ Logs(Called("startSpinner", "createCloudfrontFunction")
                   \o (IF ok THEN << >>
                       ELSE Caught("createCloudfrontFunction")
                              \o Called("warn", "execute") \o Called("warn", "execute")))
         /\ IF ok
              THEN pc' = "publish" /\ UNCHANGED warned
              ELSE /\ pc' = AfterFunction(null, awsInfo.domain, certificateResult)
                   /\ warned' = warned \cup FunctionWarnings(null)
    /\ UNCHANGED << runState, requests, dnsLocals, iamLocals, functionResult, attempts,
                    certificateValidated, waitOutcome, distConfig, distributionResult >>
    /\ UNCHANGED << oidcEnv, waitEnv, nameEnv, cliEnv >>

\* createCloudfrontFunction, lines 520-542: PublishFunctionCommand; the result
\* object is returned only when the publish call succeeded too
PublishFunction ==
    /\ pc = "publish"
    /\ Send("PublishFunction")
    /\ \E ok \in BOOLEAN :
         /\ functionResult' = Result(ok)
         /\ pc' = AfterFunction(Result(ok), awsInfo.domain, certificateResult)
         /\ warned' = warned \cup FunctionWarnings(Result(ok))
         /\ Logs(IF ok THEN Called("succeed", "createCloudfrontFunction")
                  ELSE Caught("createCloudfrontFunction")
                         \o Called("warn", "execute") \o Called("warn", "execute"))
    /\ UNCHANGED << runState, requests, dnsLocals, iamLocals, functionCreated, attempts,
                    certificateValidated, waitOutcome, distConfig, distributionResult,
                    steps >>
    /\ UNCHANGED << oidcEnv, waitEnv, nameEnv, cliEnv >>

\* waitForCertificateValidation, lines 316-334: classification of one check
CertificateStatuses == {"ISSUED", "FAILED", "PENDING_VALIDATION", "error"}

\* mutant: a failed describe command ends the wait like the status FAILED
ClassifyErrorsFatal(status) ==
    CASE status = "ISSUED" -> "ready"
      [] status \in {"FAILED", "error"} -> "terminal"
      [] OTHER -> "pending"

\* mutant: the status FAILED is waited on like a pending one
ClassifyFailedPending(status) ==
    CASE status = "ISSUED" -> "ready"
      [] OTHER -> "pending"

Classify(status) ==
    CASE status = "ISSUED" -> "ready"
      [] status = "FAILED" -> "terminal"
      [] OTHER -> "pending"

\* the outcome of the wait after a check classified as c, n checks before it
\* mutant: a ready check does not end the wait before the last attempt
WaitEndLate(c, n) ==
    CASE c = "terminal" -> "failed"
      [] n + 1 >= maxAttempts -> (IF c = "ready" THEN "issued" ELSE "timeout")
      [] OTHER -> "none"

WaitEnd(c, n) ==
    CASE c = "ready" -> "issued"
      [] c = "terminal" -> "failed"
      [] c = "pending" /\ n + 1 >= maxAttempts -> "timeout"
      [] OTHER -> "none"

\* waitForCertificateValidation: one pass of the while loop (lines 307-339)
\* followed, when the loop ends, by the function's return (lines 341-348)
\* lines 341-348 and 322: the boolean the function returns
WaitResult(end) == end = "issued"

\* lines 336-338: attempts++ and the 30 s sleep follow every check that
\* neither broke out (ISSUED) nor returned (FAILED)
SleepsAfterCheck(c) == c = "pending"

\* one pass of the loop whose describe command answers with status
WaitForCertificateValidationReturning(status) ==
    /\ pc = "wait"
    /\ attempts < maxAttempts
    /\ steps' = IF attempts = 0 THEN Append(steps, "waitForCertificateValidation") ELSE steps
    /\ Send("DescribeCertificate")
    /\ LET end == WaitEnd(Classify(status), attempts) IN
         IF end = "none"
           THEN /\ attempts' = attempts + 1
                /\ pc' = "wait"
                /\ UNCHANGED << certificateValidated, waitOutcome, warned >>
           ELSE /\ attempts' = 0
                /\ waitOutcome' = end
                /\ certificateValidated' = WaitResult(end)
                /\ warned' = IF end = "issued" THEN warned
                             ELSE warned \cup {"Proceeding with CloudFront distribution creation"}
                /\ pc' = "dist"
    /\ LET f == "waitForCertificateValidation"
           end == WaitEnd(Classify(status), attempts) IN
         Logs((IF attempts = 0
                 THEN Called("startSpinner", f) \o Called("info", f) \o Called("info", f)
                 ELSE << >>)
              \o (CASE status = "error" -> Called("warn", f)
                    [] status \notin {"ISSUED", "FAILED", "error"} -> Called("info", f)
                    [] OTHER -> << >>)
              \o (CASE end = "issued" -> Called("succeed", f)
                    [] end = "failed" -> Called("fail", f)
                    [] end = "timeout" -> Called("warn", f) \o Called("info", f)
                    [] OTHER -> << >>)
              \o (IF end \in {"failed", "timeout"}
                    THEN Called("warn", "execute") \o Called("info", "execute")
                    ELSE << >>))
    /\ UNCHANGED << runState, requests, dnsLocals, iamLocals, functionCreated, functionResult,
                    distConfig, distributionResult >>

WaitForCertificateValidation ==
    /\ \E status \in CertificateStatuses : WaitForCertificateValidationReturning(status)
    /\ UNCHANGED << oidcEnv, waitEnv, nameEnv, cliEnv >>

\* mutant: the viewer certificate is always the default CDN certificate
DistributionConfigDefaultCertificate(bucketName, domainName, certificateArn, functionArn) ==
    [ origin |-> bucketName,
      functionAssociations |-> IF functionArn # null THEN {functionArn} ELSE {},
      aliases |-> IF Truthy(domainName) THEN {domainName} ELSE {},
      ACMCertificateArn |-> null,
      CloudFrontDefaultCertificate |-> TRUE ]

\* createCloudFrontDistribution, lines 792-892: the DistributionConfig
DistributionConfig(bucketName, domainName, certificateArn, functionArn) ==
    [ origin |-> bucketName,
      functionAssociations |-> IF functionArn # null THEN {functionArn} ELSE {},
      aliases |-> IF Truthy(domainName) THEN {domainName} ELSE {},
      ACMCertificateArn |-> IF Truthy(domainName) /\ certificateArn # null
                              THEN certificateArn ELSE null,
      CloudFrontDefaultCertificate |-> ~(Truthy(domainName) /\ certificateArn # null) ]

\* mutant: the bucket policy is updated whether or not the distribution exists
AfterDistributionAlways(dist) == "bucketpolicy"

\* mutant: a failed distribution creation aborts the run
AfterDistributionThrows(dist) == IF dist = null THEN "thrown" ELSE "bucketpolicy"

\* execute, lines 149-170: what follows createCloudFrontDistribution
AfterDistribution(dist) == IF dist = null THEN "iam" ELSE "bucketpolicy"

\* execute, lines 140-147
CreateCloudFrontDistribution ==
    /\ pc = "dist"
    /\ Enter("createCloudFrontDistribution")
    /\ Send("CreateDistribution")
    /\ distConfig' = << DistributionConfig(bucketResult, awsInfo.domain,
                                           certificateResult, functionResult) >>
    /\ \E ok \in BOOLEAN :
         /\ distributionResult' = Result(ok)
         /\ pc' = AfterDistribution(Result(ok))
         /\ warned' = IF ok THEN warned
                      ELSE warned \cup {"Failed to create CloudFront distribution"}
         /\ Logs(StepCalls("createCloudFrontDistribution", ok,
                            Called("info", "createCloudFrontDistribution"))
                   \o Called(IF ok THEN "info" ELSE "warn", "execute"))
    /\ UNCHANGED << runState, requests, dnsLocals, iamLocals, functionCreated, functionResult,
                    attempts, certificateValidated, waitOutcome >>
    /\ UNCHANGED << oidcEnv, waitEnv, nameEnv, cliEnv >>

\* execute, lines 161-169: alias records need the hosted zone and the domain
AliasWanted(zone, domain) == zone # null /\ Truthy(domain)

\* updateS3BucketPolicy, lines 121-145: the bucket policy document
BucketPolicy(bucketName, cloudFrontDistributionArn) ==
    [ Bucket |-> bucketName,
      Principal |-> "cloudfront.amazonaws.com",
      Action |-> "s3:GetObject",
      Resource |-> << "arn:aws:s3:::", bucketName, "/*" >>,
      SourceArn |-> cloudFrontDistributionArn ]

\* execute, lines 154-159: updateS3BucketPolicy; its result is not looked at
UpdateS3BucketPolicy ==
    /\ pc = "bucketpolicy"
    /\ Enter("updateS3BucketPolicy")
    /\ Send("PutBucketPolicy")
    /\ requests' = [ requests EXCEPT !.bucketPolicy =
                       << BucketPolicy(Bucket(bucketResult).bucketName,
                                       Distribution(distributionResult).distributionArn) >> ]
    /\ \E ok \in BOOLEAN :
         /\ warned' = IF ok THEN warned ELSE warned \cup {"Failed to update S3 bucket policy"}
         /\ Logs(StepCalls("updateS3BucketPolicy", ok, << >>))
    /\ pc' = IF AliasWanted(hostedZoneResult, awsInfo.domain) THEN "alias" ELSE "iam"
    /\ UNCHANGED << runState, dnsLocals, cdnLocals, iamLocals >>
    /\ UNCHANGED << oidcEnv, waitEnv, nameEnv, cliEnv >>

\* createCloudFrontDnsRecords, lines 419-458: A and AAAA alias records
CloudFrontDnsChanges(hostedZoneId, domainName, distributionDomain) ==
    [ HostedZoneId |-> StripHostedZonePrefix(hostedZoneId),
      Changes |-> [ i \in 1..2 |->
                      [ Action |-> "UPSERT", Name |-> domainName,
                        Type |-> IF i = 1 THEN "A" ELSE "AAAA",
                        AliasTarget |-> [ HostedZoneId |-> "Z2FDTNDATAQYW2",
                                          DNSName |-> distributionDomain ] ] ] ]

\* execute, lines 162-169: createCloudFrontDnsRecords; its result is not looked at
CreateCloudFrontDnsRecords ==
    /\ pc = "alias"
    /\ Enter("createCloudFrontDnsRecords")
    /\ Send("ChangeResourceRecordSets(alias)")
    /\ requests' = [ requests EXCEPT !.alias =
                       << CloudFrontDnsChanges(HostedZone(hostedZoneResult).hostedZoneId,
                                               awsInfo.domain,
                                               Distribution(distributionResult).distributionDomain) >> ]
    /\ \E ok \in BOOLEAN :
         /\ warned' = IF ok THEN warned ELSE warned \cup {"Failed to create DNS records"}
         /\ Logs(StepCalls("createCloudFrontDnsRecords", ok,
                            Called("info", "createCloudFrontDnsRecords")))
    /\ pc' = "iam"
    /\ UNCHANGED << runState, dnsLocals, cdnLocals, iamLocals >>
    /\ UNCHANGED << oidcEnv, waitEnv, nameEnv, cliEnv >>

\* mutant: the IAM block runs whether or not the repository is known
IamAlwaysWanted(cfg) == TRUE

\* execute, line 177: if (siteConfig.githubUsername && siteConfig.repo)
IamWanted(cfg) == cfg.hasRepo

\* mutant: a failed policy creation returns from execute at once
AfterPolicyReturns(policy) == IF policy = null THEN "returned" ELSE "oidc_list"

\* mutant: the role step is entered although the policy was not created
AfterPolicyLenient(policy) == "oidc_list"

AfterPolicy(policy) == IF policy = null THEN "save" ELSE "oidc_list"

\* execute, line 180: const githubRepo = `${githubUsername}/${repo}`
GithubRepo(cfg) == IF cfg.hasRepo THEN << "owner", "/", "site" >> ELSE << "/" >>

\* execute, line 185: the ARN used when no distribution was created
PlaceholderDistributionArn ==
    << "arn:aws:cloudfront::123456789012:distribution/placeholder" >>

\* execute, lines 183-185: const cloudfrontDistributionArn
CloudfrontDistributionArn(dist) ==
    IF dist # null THEN Distribution(dist).distributionArn ELSE PlaceholderDistributionArn

\* createIamPolicy, lines 556-575: the policy document
PolicyDocument(s3BucketArn, cloudFrontDistributionArn) ==
    [ Effect |-> "Allow",
      Action |-> { "s3:PutObject", "s3:GetObject", "s3:ListBucket", "s3:DeleteObject",
                   "cloudfront:CreateInvalidation" },
      Resource |-> { s3BucketArn \o << "/*" >>, s3BucketArn, cloudFrontDistributionArn } ]

\* execute, lines 177-195: createIamPolicy
CreateIamPolicy ==
    /\ pc = "iam"
    /\ IamWanted(siteConfig)
    /\ Enter("createIamPolicy")
    /\ Send("CreatePolicy")
    /\ requests' = [ requests EXCEPT !.iamPolicy =
                       << PolicyDocument(Bucket(bucketResult).bucketArn,
                                         CloudfrontDistributionArn(distributionResult)) >> ]
    /\ \E ok \in BOOLEAN :
         /\ policyResult' = Result(ok)
         /\ pc' = AfterPolicy(Result(ok))
         /\ warned' = IF ok THEN warned ELSE warned \cup {"Failed to create IAM policy"}
         /\ Logs(StepCalls("createIamPolicy", ok, << >>)
                   \o (IF ok THEN << >> ELSE Called("warn", "execute")))
    /\ UNCHANGED << runState, dnsLocals, cdnLocals, oidc, providerArn, roleCreated,
                    roleResult >>
    /\ UNCHANGED << oidcEnv, waitEnv, nameEnv, cliEnv >>

\* execute, lines 217-220
SkipIam ==
    /\ pc = "iam"
    /\ ~IamWanted(siteConfig)
    /\ Warn("GitHub repository information not found. Skipping IAM policy and role setup.")
    /\ Logs(Called("warn", "execute") \o Called("info", "execute"))
    /\ pc' = "save"
    /\ UNCHANGED << runState, locals, steps, calls >>
    /\ UNCHANGED << oidcEnv, waitEnv, nameEnv, cliEnv >>

\* createIamRole / createOrGetGithubOidcProvider gave up: createIamRole
\* returns null and execute warns (lines 204-205)
RoleFailed == warned' = warned \cup {"Failed to create IAM role"}

\* createOrGetGithubOidcProvider, lines 696-705, and createIamRole, lines
\* 723-725 and 771-774: the provider function returns its ARN after
\* logger.succeed, or throws into its catch block and returns null, upon
\* which createIamRole throws into its own and execute warns (line 205)
OidcReturns(next) ==
    CASE next = "createrole" -> Called("succeed", "createOrGetGithubOidcProvider")
      [] next = "save" -> Caught("createOrGetGithubOidcProvider")
                            \o Caught("createIamRole") \o Called("warn", "execute")
      [] OTHER -> << >>

\* createOrGetGithubOidcProvider, lines 610-641 and 663-687: list the providers.
\* The first pass is entered from createIamRole (line 722), the second after
\* an EntityAlreadyExistsException.  An empty or failed first listing goes on
\* to create; an empty or failed second listing leaves providerArn null.
AfterList(pass, ok, n) ==
    IF ok /\ n > 0 THEN "oidc_get"
    ELSE IF pass = 1 THEN "oidc_create" ELSE "save"

\* the list command answers with n providers (ok) or fails
ListOidcProvidersReturning(ok, n) ==
    /\ pc = "oidc_list"
    /\ steps' = IF oidc.pass = 0
                  THEN steps \o << "createIamRole", "createOrGetGithubOidcProvider" >>
                  ELSE steps
    /\ Send("ListOpenIDConnectProviders")
    /\ LET pass == IF oidc.pass = 0 THEN 1 ELSE 2 IN
         /\ oidc' = [ pass |-> pass, listed |-> IF ok THEN n ELSE 0,
                      left |-> IF ok THEN n ELSE 0 ]
         /\ pc' = AfterList(pass, ok, n)
         /\ IF AfterList(pass, ok, n) = "save" THEN RoleFailed ELSE UNCHANGED warned
         /\ Logs((IF pass = 1
                     THEN Called("startSpinner", "createIamRole")
                            \o Called("startSpinner", "createOrGetGithubOidcProvider")
                     ELSE << >>)
                  \o (IF ok THEN << >> ELSE Called("warn", "createOrGetGithubOidcProvider"))
                  \o OidcReturns(AfterList(pass, ok, n)))
    /\ UNCHANGED << runState, requests, dnsLocals, cdnLocals, policyResult, providerArn,
                    roleCreated, roleResult >>

ListOidcProviders ==
    /\ \E ok \in BOOLEAN, n \in 0..MaxProviders : ListOidcProvidersReturning(ok, n)
    /\ UNCHANGED << oidcEnv, waitEnv, nameEnv, cliEnv >>

\* createOrGetGithubOidcProvider, lines 617-637 and 669-684: inspect the next
\* listed provider; the first whose Url is GitHub's issuer wins
ProviderLookups == {"github", "other", "error"}

\* mutant: the provider loop does not stop at the first match
AfterGetNoBreak(pass, outcome, left) ==
    IF left > 1 THEN "oidc_get"
    ELSE IF outcome = "github" THEN "createrole"
    ELSE IF pass = 1 THEN "oidc_create" ELSE "save"

AfterGet(pass, outcome, left) ==
    IF outcome = "github" THEN "createrole"
    ELSE IF left > 1 THEN "oidc_get"
    ELSE IF pass = 1 THEN "oidc_create" ELSE "save"

\* position in the listing of the provider inspected next
NextListed == oidc.listed - oidc.left + 1

\* the get command for the listed provider arn answers with a matching Url
\* ("github"), another Url ("other"), or fails ("error")
GetOidcProviderReturning(outcome, arn) ==
    /\ pc = "oidc_get"
    /\ oidc.left > 0
    /\ Send("GetOpenIDConnectProvider")
    /\ providerArn' = IF outcome = "github" THEN arn ELSE null
    /\ oidc' = [ oidc EXCEPT !.left = @ - 1 ]
    /\ pc' = AfterGet(oidc.pass, outcome, oidc.left)
    /\ IF AfterGet(oidc.pass, outcome, oidc.left) = "save"
         THEN RoleFailed ELSE UNCHANGED warned
    /\ Logs((CASE oidc.pass = 1 /\ outcome = "github" ->
                      Called("info", "createOrGetGithubOidcProvider")
               [] oidc.pass = 1 /\ outcome = "error" ->
                      Called("warn", "createOrGetGithubOidcProvider")
               [] OTHER -> << >>)
            \o OidcReturns(AfterGet(oidc.pass, outcome, oidc.left)))
    /\ UNCHANGED << runState, requests, dnsLocals, cdnLocals, policyResult, roleCreated,
                    roleResult, steps >>

\* a provider found at position i of the listing has the ARN -i
GetOidcProvider ==
    /\ \E outcome \in ProviderLookups : GetOidcProviderReturning(outcome, 0 - NextListed)
    /\ UNCHANGED << oidcEnv, waitEnv, nameEnv, cliEnv >>

\* createOrGetGithubOidcProvider, lines 644-694: create the provider
CreateOutcomes == {"created", "EntityAlreadyExistsException", "error"}

\* mutant: an already-exists error of the create command is fatal
AfterCreateProviderFatal(outcome) ==
    IF outcome = "created" THEN "createrole" ELSE "save"

\* mutant: the role is created although the provider could not be created
AfterCreateProviderLenient(outcome) ==
    IF outcome = "EntityAlreadyExistsException" THEN "oidc_list" ELSE "createrole"

\* mutant: the create command is sent again when the provider already exists
AfterCreateProviderRetries(outcome) ==
    CASE outcome = "created" -> "createrole"
      [] outcome = "EntityAlreadyExistsException" -> "oidc_create"
      [] OTHER -> "save"

AfterCreateProvider(outcome) ==
    CASE outcome = "created" -> "createrole"
      [] outcome = "EntityAlreadyExistsException" -> "oidc_list"
      [] OTHER -> "save"

CreateOidcProviderReturning(outcome) ==
    /\ pc = "oidc_create"
    /\ Send("CreateOpenIDConnectProvider")
    /\ providerArn' = IF outcome = "created" THEN run ELSE null
    /\ pc' = AfterCreateProvider(outcome)
    /\ IF AfterCreateProvider(outcome) = "save" THEN RoleFailed ELSE UNCHANGED warned
    /\ Logs((CASE outcome = "created" ->
                      Called("succeed", "createOrGetGithubOidcProvider")
               [] outcome = "EntityAlreadyExistsException" ->
                      Called("info", "createOrGetGithubOidcProvider")
               [] OTHER -> Called("error", "createOrGetGithubOidcProvider"))
            \o OidcReturns(AfterCreateProvider(outcome)))
    /\ UNCHANGED << runState, requests, dnsLocals, cdnLocals, policyResult, oidc, roleCreated,
                    roleResult, steps >>

CreateOidcProvider ==
    /\ \E outcome \in CreateOutcomes : CreateOidcProviderReturning(outcome)
    /\ UNCHANGED << oidcEnv, waitEnv, nameEnv, cliEnv >>

\* createIamRole, lines 727-747: the trust relationship of the role
AssumeRolePolicyDocument(provider, githubRepo) ==
    [ Effect |-> "Allow",
      Federated |-> provider,
      Action |-> "sts:AssumeRoleWithWebIdentity",
      StringEquals |-> [ aud |-> "sts.amazonaws.com" ],
      StringLike |-> [ sub |-> << "repo:" >> \o githubRepo \o << ":*" >> ] ]

\* createIamRole, lines 727-755: CreateRoleCommand
CreateRole ==
    /\ pc = "createrole"
    /\ Send("CreateRole")
    /\ requests' = [ requests EXCEPT !.trustPolicy =
                       << AssumeRolePolicyDocument(providerArn, GithubRepo(siteConfig)) >> ]
    /\ \E ok \in BOOLEAN :
         /\ roleCreated' = Result(ok)
         /\ pc' = IF ok THEN "attach" ELSE "save"
         /\ IF ok THEN UNCHANGED warned ELSE RoleFailed
         /\ Logs(IF ok THEN << >>
                  ELSE Caught("createIamRole") \o Called("warn", "execute"))
    /\ UNCHANGED << runState, dnsLocals, cdnLocals, policyResult, oidc, providerArn,
                    roleResult, steps >>
    /\ UNCHANGED << oidcEnv, waitEnv, nameEnv, cliEnv >>

\* createIamRole, lines 757-775: AttachRolePolicyCommand; the result object is
\* returned only when the attachment succeeded too
AttachRolePolicy ==
    /\ pc = "attach"
    /\ Send("AttachRolePolicy")
    /\ \E ok \in BOOLEAN :
         /\ roleResult' = Result(ok)
         /\ pc' = IF ok THEN "workflow" ELSE "save"
         /\ IF ok THEN UNCHANGED warned ELSE RoleFailed
         /\ Logs(IF ok THEN Called("succeed", "createIamRole")
                  ELSE Caught("createIamRole") \o Called("warn", "execute"))
    /\ UNCHANGED << runState, requests, dnsLocals, cdnLocals, policyResult, oidc, providerArn,
                    roleCreated, steps >>
    /\ UNCHANGED << oidcEnv, waitEnv, nameEnv, cliEnv >>

\* execute, lines 207-214: githubService.createWorkflowFile (a local file
\* write; its boolean result is not looked at)
CreateWorkflowFile ==
    /\ pc = "workflow"
    /\ Enter("createWorkflowFile")
    /\ \E ok \in BOOLEAN :
         /\ warned' = IF ok THEN warned ELSE warned \cup {"Failed to create GitHub workflow file"}
         /\ Logs(StepCalls("createWorkflowFile", ok, Called("info", "createWorkflowFile")))
    /\ pc' = "save"
    /\ UNCHANGED << runState, locals, calls >>
    /\ UNCHANGED << oidcEnv, waitEnv, nameEnv, cliEnv >>

\* mutant: the certificate is not written into siteConfig
UpdatedSiteConfigNoCertificate(cfg, info, bucket, zone, cert, fn, dist) ==
    [ cfg EXCEPT !.domain = info.domain,
                 !.s3Bucket = bucket,
                 !.route53HostedZoneId = IF zone # null THEN zone ELSE @,
                 !.cloudfrontFunctionArn = IF fn # null THEN fn ELSE @,
                 !.cloudfrontDistribution = IF dist # null THEN dist ELSE @ ]

\* mutant: the distribution is not written into siteConfig
UpdatedSiteConfigNoDistribution(cfg, info, bucket, zone, cert, fn, dist) ==
    [ cfg EXCEPT !.domain = info.domain,
                 !.s3Bucket = bucket,
                 !.route53HostedZoneId = IF zone # null THEN zone ELSE @,
                 !.acmCertificateArn = IF cert # null THEN cert ELSE @,
                 !.cloudfrontFunctionArn = IF fn # null THEN fn ELSE @ ]

\* execute, lines 222-244: the fields written into siteConfig
UpdatedSiteConfig(cfg, info, bucket, zone, cert, fn, dist) ==
    [ cfg EXCEPT !.domain = info.domain,
                 !.s3Bucket = bucket,
                 !.route53HostedZoneId = IF zone # null THEN zone ELSE @,
                 !.acmCertificateArn = IF cert # null THEN cert ELSE @,
                 !.cloudfrontFunctionArn = IF fn # null THEN fn ELSE @,
                 !.cloudfrontDistribution = IF dist # null THEN dist ELSE @ ]

\* execute, lines 222-248: update the site config, save it, return it
SaveSiteConfig ==
    /\ pc = "save"
    /\ siteConfig' = UpdatedSiteConfig(siteConfig, awsInfo, bucketResult, hostedZoneResult,
                                       certificateResult, functionResult, distributionResult)
    /\ stored' = siteConfig'
    /\ saveCount' = saveCount + 1
    /\ pc' = "returned"
    /\ UNCHANGED << run, options, awsInfo, locals, steps, calls, warned, exitCode, logger >>
    /\ UNCHANGED << oidcEnv, waitEnv, nameEnv, cliEnv >>

\* bin/ssc.js, setup-aws action (lines 101-110): success message and exit
\* code 0 when execute returned, process.exit(1) when it threw
ExitCodeOf(position) == IF position = "returned" THEN 0 ELSE 1

CommandAction ==
    /\ pc \in {"returned", "thrown"}
    /\ exitCode' = ExitCodeOf(pc)
    /\ pc' = "exited"
    /\ UNCHANGED << run, stored, siteConfig, options, awsInfo, locals, steps, calls,
                    warned, saveCount, logger >>
    /\ UNCHANGED << oidcEnv, waitEnv, nameEnv, cliEnv >>

Next ==
    \/ StartRun
    \/ CreateS3Bucket
    \/ CreateHostedZone
    \/ SkipHostedZone
    \/ RequestCertificate
    \/ SkipCertificate
    \/ GetCertificateValidationRecords
    \/ CreateDnsValidationRecords
    \/ CreateCloudfrontFunction
    \/ PublishFunction
    \/ WaitForCertificateValidation
    \/ CreateCloudFrontDistribution
    \/ UpdateS3BucketPolicy
    \/ CreateCloudFrontDnsRecords
    \/ CreateIamPolicy
    \/ SkipIam
    \/ ListOidcProviders
    \/ GetOidcProvider
    \/ CreateOidcProvider
    \/ CreateRole
    \/ AttachRolePolicy
    \/ CreateWorkflowFile
    \/ SaveSiteConfig
    \/ CommandAction

Spec == Init /\ [][Next]_vars

\* the command is one sequential process: every await settles (each SDK call
\* resolves or rejects, each timer fires), so a step that can be taken is taken
FairSpec == Spec /\ WF_vars(Next)

\* ------------------- createOrGetGithubOidcProvider against one AWS account
\* The function is called up to MaxCalls times in a row against an account
\* whose providers are tracked: the list command returns the account's
\* providers, the get command the stored Url of the provider asked for, the
\* create command fails with EntityAlreadyExistsException when the account
\* has a provider for GitHub's issuer.  Each command may also fail.

\* line 626: the Url the lookup compares with
GithubIssuer == "token.actions.githubusercontent.com"

\* the Url of a provider that is not GitHub's
OtherIssuer == "accounts.google.com"

\* line 647: the Url sent with the create command, scheme and host
CreateUrl == << "https://", GithubIssuer >>

\* IAM stores, and the get command returns, the Url without its scheme
StoredUrl(url) == url[2]

\* line 626: if (getResponse.Url === 'token.actions.githubusercontent.com')
LookupOf(url) == IF url = GithubIssuer THEN "github" ELSE "other"

\* the provider at position i of an account before the first call
Provider(i, url) == [ arn |-> 0 - i, url |-> url ]

HasGithub(a) == \E i \in 1..Len(a) : a[i].url = GithubIssuer

\* accounts before the first call: IAM keeps one provider per Url at most
Accounts ==
    { [ i \in 1..Len(urls) |-> Provider(i, urls[i]) ] :
        urls \in { u \in UNION { [ 1..n -> {GithubIssuer, OtherIssuer} ] :
                                    n \in 0..MaxProviders } :
                      Cardinality({ i \in 1..Len(u) : u[i] = GithubIssuer }) <= 1 } }

\* execute is about to call createIamRole: first run, no domain, the edge
\* function failed, the IAM policy was created (a state Spec reaches)
StartOfRoleStep ==
    /\ pc = "oidc_list"
    /\ run = 1
    /\ stored = [ exists |-> TRUE, domain |-> NoDomain, hasRepo |-> TRUE,
                  s3Bucket |-> null, route53HostedZoneId |-> null,
                  acmCertificateArn |-> null, cloudfrontFunctionArn |-> null,
                  cloudfrontDistribution |-> null ]
    /\ siteConfig = stored
    /\ options = [ domain |-> NoDomain ]
    /\ awsInfo = [ domain |-> NoDomain ]
    /\ bucketResult = 1
    /\ hostedZoneResult = null
    /\ certificateResult = null
    /\ validationRecords = NoRecords
    /\ retries = 0
    /\ functionCreated = null
    /\ functionResult = null
    /\ attempts = 0
    /\ certificateValidated = TRUE
    /\ waitOutcome = "none"
    /\ distConfig = << >>
    /\ distributionResult = null
    /\ policyResult = 1
    /\ oidc = NoLookup
    /\ providerArn = null
    /\ roleCreated = null
    /\ roleResult = null
    /\ steps = << "createS3Bucket", "createCloudfrontFunction", "createIamPolicy" >>
    /\ calls = {"CreateBucket", "CreateFunction", "CreatePolicy"}
    /\ requests = [ NoRequests EXCEPT !.iamPolicy =
                      << PolicyDocument(Bucket(1).bucketArn, CloudfrontDistributionArn(null)) >> ]
    /\ warned = {"No domain specified. Skipping Route53 setup.",
                 "No domain specified. Skipping ACM certificate request."}
                    \cup FunctionWarnings(null)
    /\ saveCount = 0
    /\ exitCode = -1
    /\ logger = LoggerWhenAllEnded({"createS3Bucket", "createCloudfrontFunction",
                                    "createIamPolicy"})

InitOidc ==
    /\ StartOfRoleStep
    /\ account \in Accounts
    /\ results = << >>
    /\ lookupFailed = FALSE
    /\ createOutcome = "none"
    /\ checks = 0
    /\ sleeps = 0
    /\ errors = 0
    /\ lastAnswer = "none"
    /\ clock = 0
    /\ used = {}
    /\ OthersNotRun

\* lines 612-613 and 664-665: the list command returns the account's providers
OidcList ==
    /\ \E ok \in BOOLEAN :
         /\ ListOidcProvidersReturning(ok, Len(account))
         /\ lookupFailed' = ~ok
    /\ UNCHANGED << account, results, createOutcome >>
    /\ UNCHANGED << waitEnv, nameEnv, cliEnv >>

\* lines 620-624 and 671-675: the get command returns the stored Url of the
\* listed provider; lookupFailed remembers a failed get of GitHub's provider
OidcGet ==
    /\ pc = "oidc_get"
    /\ oidc.left > 0
    /\ \E failed \in BOOLEAN :
         LET provider == account[NextListed] IN
         /\ GetOidcProviderReturning(IF failed THEN "error" ELSE LookupOf(provider.url),
                                     provider.arn)
         /\ lookupFailed' = (lookupFailed \/ (failed /\ provider.url = GithubIssuer))
    /\ UNCHANGED << account, results, createOutcome >>
    /\ UNCHANGED << waitEnv, nameEnv, cliEnv >>

\* lines 645-652: the create command adds the provider to the account, fails
\* because the account has one for this Url, or fails for another reason
OidcCreate ==
    /\ pc = "oidc_create"
    /\ \E outcome \in (IF HasGithub(account)
                         THEN {"EntityAlreadyExistsException", "error"}
                         ELSE {"created", "error"}) :
         /\ CreateOidcProviderReturning(outcome)
         /\ createOutcome' = outcome
         /\ account' = IF outcome = "created"
                         THEN Append(account, [ arn |-> run, url |-> StoredUrl(CreateUrl) ])
                         ELSE account
    /\ UNCHANGED << results, lookupFailed >>
    /\ UNCHANGED << waitEnv, nameEnv, cliEnv >>

\* lines 657-659 ("already exists, but we could not find it earlier"):
\* someone else creates GitHub's provider while the function is running
ProviderAppears ==
    /\ pc \in {"oidc_list", "oidc_get", "oidc_create"}
    /\ ~HasGithub(account)
    /\ Len(account) < MaxProviders
    /\ account' = Append(account, Provider(Len(account) + 1, GithubIssuer))
    /\ UNCHANGED << pc, run, stored, siteConfig, options, awsInfo, locals, steps, calls,
                    warned, saveCount, exitCode, results, lookupFailed, createOutcome,
                    logger >>
    /\ UNCHANGED << waitEnv, nameEnv, cliEnv >>

\* createOrGetGithubOidcProvider has returned to createIamRole (lines 722-725)
Returned == pc \in {"createrole", "save"}

\* the function returned and is called again (line 722, entered anew)
CallAgain ==
    /\ Returned
    /\ Len(results) + 1 < MaxCalls
    /\ results' = Append(results, providerArn)
    /\ pc' = "oidc_list"
    /\ oidc' = NoLookup
    /\ providerArn' = null
    /\ calls' = {}
    /\ lookupFailed' = FALSE
    /\ createOutcome' = "none"
    /\ UNCHANGED << runState, requests, dnsLocals, cdnLocals, policyResult, roleCreated,
                    roleResult, steps, warned, account, logger >>
    /\ UNCHANGED << waitEnv, nameEnv, cliEnv >>

NextOidc ==
    \/ OidcList
    \/ OidcGet
    \/ OidcCreate
    \/ ProviderAppears
    \/ CallAgain

SpecOidc == InitOidc /\ [][NextOidc]_vars

\* ----------------------------------------------- the two wait loops alone
\* getCertificateValidationRecords and waitForCertificateValidation are run
\* once each from the state in which execute calls them, and the describe
\* commands, the interval sleeps and the failed commands are counted.

\* a first run for example.com with a repository that has reached position
\* at, having called stepsSoFar, sent callsSoFar and logged warnings
FirstRunAt(at, zone, fn, stepsSoFar, callsSoFar, warnings) ==
    /\ pc = at
    /\ run = 1
    /\ stored = [ exists |-> TRUE, domain |-> "example.com", hasRepo |-> TRUE,
                  s3Bucket |-> null, route53HostedZoneId |-> null,
                  acmCertificateArn |-> null, cloudfrontFunctionArn |-> null,
                  cloudfrontDistribution |-> null ]
    /\ siteConfig = stored
    /\ options = [ domain |-> NoDomain ]
    /\ awsInfo = [ domain |-> "example.com" ]
    /\ bucketResult = 1
    /\ hostedZoneResult = zone
    /\ certificateResult = 1
    /\ validationRecords = NoRecords
    /\ retries = 0
    /\ functionCreated = fn
    /\ functionResult = fn
    /\ attempts = 0
    /\ certificateValidated = TRUE
    /\ waitOutcome = "none"
    /\ distConfig = << >>
    /\ distributionResult = null
    /\ policyResult = null
    /\ oidc = NoLookup
    /\ providerArn = null
    /\ roleCreated = null
    /\ roleResult = null
    /\ steps = stepsSoFar
    /\ calls = callsSoFar
    /\ requests = NoRequests
    /\ warned = warnings
    /\ saveCount = 0
    /\ exitCode = -1
    /\ logger = LoggerWhenAllEnded({ stepsSoFar[i] : i \in 1..Len(stepsSoFar) })

\* execute is about to call getCertificateValidationRecords (line 80)
StartOfRecordPoll ==
    FirstRunAt("valrec", 1, null,
               << "createS3Bucket", "createHostedZone", "requestCertificate" >>,
               {"CreateBucket", "CreateHostedZone", "RequestCertificate"}, {})

\* execute is about to call waitForCertificateValidation (line 127); the
\* hosted zone had failed, so no validation record was looked for
StartOfIssuanceWait ==
    FirstRunAt("wait", null, 1,
               << "createS3Bucket", "createHostedZone", "requestCertificate",
                  "createCloudfrontFunction" >>,
               {"CreateBucket", "CreateHostedZone", "RequestCertificate",
                "CreateFunction", "PublishFunction"},
               {"Failed to create Route53 hosted zone"})

InitWait ==
    /\ StartOfRecordPoll \/ StartOfIssuanceWait
    /\ checks = 0
    /\ sleeps = 0
    /\ errors = 0
    /\ lastAnswer = "none"
    /\ account = << >>
    /\ results = << >>
    /\ lookupFailed = FALSE
    /\ createOutcome = "none"
    /\ clock = 0
    /\ used = {}
    /\ OthersNotRun

Count(condition) == IF condition THEN 1 ELSE 0

\* getCertificateValidationRecords, lines 240-274: one pass, counted
PollRecords ==
    /\ \E outcome \in RecordPollOutcomes :
         /\ GetCertificateValidationRecordsReturning(outcome)
         /\ sleeps' = sleeps + Count(SleepsAfterPoll(RecordsOf(outcome)))
         /\ errors' = errors + Count(outcome.error)
         /\ lastAnswer' = IF outcome.error THEN "error"
                          ELSE IF RecordsOf(outcome) # NoRecords THEN "records"
                          ELSE "pending"
    /\ checks' = checks + 1
    /\ UNCHANGED << oidcEnv, nameEnv, cliEnv >>

\* waitForCertificateValidation, lines 307-339: one pass, counted
CheckStatus ==
    /\ \E status \in CertificateStatuses :
         /\ WaitForCertificateValidationReturning(status)
         /\ sleeps' = sleeps + Count(SleepsAfterCheck(Classify(status)))
         /\ errors' = errors + Count(status = "error")
         /\ lastAnswer' = status
    /\ checks' = checks + 1
    /\ UNCHANGED << oidcEnv, nameEnv, cliEnv >>

NextWait ==
    \/ PollRecords
    \/ CheckStatus

SpecWait == InitWait /\ [][NextWait]_vars

\* --------------------------------------------- the resource names alone
\* execute is called several times, for the same site or for different ones,
\* and the names it derives (lines 45, 111, 178, 179) are collected.  Names
\* are sequences of characters.  Times are milliseconds after an instant
\* whose Date.now() ends in six zeros.
MaxNamedRuns == 3

SiteNames ==
    { << "b", "l", "o", "g" >>, << "d", "o", "c", "s" >>,
      << "b", "l", "o", "g", "-", "1" >> }

Times == {0, 1, 999999, 1000000, 1000001}

DigitChars == << "0", "1", "2", "3", "4", "5", "6", "7", "8", "9" >>

\* 10 to the power n
RECURSIVE Pow10(_)
Pow10(n) == IF n = 0 THEN 1 ELSE 10 * Pow10(n - 1)

\* line 45: Date.now().toString().slice(-6), the last six decimal digits
LastSixDigits(t) == [ i \in 1..6 |-> DigitChars[((t \div Pow10(6 - i)) % 10) + 1] ]

\* line 45: `${siteName}-${Date.now().toString().slice(-6)}`
bucketName(siteName, t) == siteName \o << "-" >> \o LastSixDigits(t)

\* line 111: `${siteName}-redirect-function`
functionName(siteName) == siteName \o << "-", "redirect-function" >>

\* line 178: `${siteName}-deploy-policy`
policyName(siteName) == siteName \o << "-", "deploy-policy" >>

\* line 179: `${siteName}-github-actions-role`
roleName(siteName) == siteName \o << "-", "github-actions-role" >>

\* the names one execute call for siteName at time t uses
NamesOf(siteName, t) ==
    { [ site |-> siteName, time |-> t, kind |-> "bucket", name |-> bucketName(siteName, t) ],
      [ site |-> siteName, time |-> t, kind |-> "function", name |-> functionName(siteName) ],
      [ site |-> siteName, time |-> t, kind |-> "policy", name |-> policyName(siteName) ],
      [ site |-> siteName, time |-> t, kind |-> "role", name |-> roleName(siteName) ] }

\* execute, lines 21-179, for siteName at Date.now() = t; two invocations may
\* read the same millisecond
NameResources ==
    /\ Cardinality({ << u.site, u.time >> : u \in used }) < MaxNamedRuns
    /\ \E siteName \in SiteNames, t \in Times :
         /\ t >= clock
         /\ clock' = t
         /\ used' = used \cup NamesOf(siteName, t)
    /\ UNCHANGED << pc, run, stored, siteConfig, options, awsInfo, locals, steps, calls,
                    warned, saveCount, exitCode, logger >>
    /\ UNCHANGED << oidcEnv, waitEnv, cliEnv >>

NextNames == NameResources

SpecNames == Init /\ [][NextNames]_vars

\* ----------------------------------------------- GitHub tokens and setup-github
\* lib/services/github-oauth.js (getAccessToken), lib/services/github.js
\* (getAuthToken, getAuthenticatedUser, createRepository) and
\* lib/commands/setup-github.js (execute).  GitHub users, tokens and instants
\* are small numbers; 0 is null and a missing JSON property is undefined.
undefined == null - 1

\* the GitHub users
Logins == {1, 2}

\* keytar.getPassword returns null: nothing is stored for the user
NoEntry == [ access_token |-> null, refresh_token |-> null, expires_at |-> null ]

\* the answers to the refresh request of getAccessToken: fetch rejects
\* ("error"), an HTTP error status ("failed"), or HTTP success with a JSON
\* body whose properties may be missing
RefreshResponses ==
    [ status : {"error", "failed"}, access_token : {undefined},
      refresh_token : {null}, expires_in : {null} ]
    \cup [ status : {"ok"}, access_token : {2, undefined},
           refresh_token : {null}, expires_in : {null, 2} ]

\* getAccessToken, lines 152-202: what it returns and what the keychain
\* holds for the user afterwards
getAccessToken(entry, now, response) ==
    IF entry = NoEntry
    THEN [ returns |-> null, entry |-> entry ]
    ELSE IF entry.expires_at # null /\ now > entry.expires_at /\ entry.refresh_token # null
    THEN IF response.status = "error"
         THEN [ returns |-> null, entry |-> entry ]
         ELSE IF response.status = "failed"
         THEN [ returns |-> null, entry |-> entry ]
         ELSE LET newTokenData ==
                      [ access_token |-> response.access_token,
                        refresh_token |-> IF response.refresh_token # null
                                          THEN response.refresh_token
                                          ELSE entry.refresh_token,
                        expires_at |-> IF response.expires_in # null
                                       THEN now + response.expires_in
                                       ELSE null ]
              IN [ returns |-> newTokenData.access_token, entry |-> newTokenData ]
    ELSE [ returns |-> entry.access_token, entry |-> entry ]

\* how one authenticate() call ends: it throws, or the user login authorised
\* the device and the entry is stored under that login (lines 129-140)
Authentications ==
    [ ok : {FALSE}, login : {null}, entry : {NoEntry} ]
    \cup [ ok : {TRUE}, login : Logins,
           entry : {[ access_token |-> 3, refresh_token |-> 1, expires_at |-> null ]} ]

\* github.js getAuthToken, lines 40-52; username is null when the caller
\* passes none.  authCalls counts the authenticate() calls it makes.
getAuthToken(username, kc, now, response, flow) ==
    LET first == getAccessToken(kc[username], now, response)
        kc1 == [ kc EXCEPT ![username] = first.entry ]
    IN IF username # null /\ first.returns \notin {null, undefined}
       THEN [ token |-> first.returns, keychain |-> kc1, authCalls |-> 0, threw |-> FALSE ]
       ELSE LET kc0 == IF username # null THEN kc1 ELSE kc
            IN IF ~flow.ok
               THEN [ token |-> null, keychain |-> kc0, authCalls |-> 1, threw |-> TRUE ]
               ELSE LET kc2 == [ kc0 EXCEPT ![flow.login] = flow.entry ]
                        second == getAccessToken(kc2[flow.login], now, response)
                    IN [ token |-> second.returns,
                         keychain |-> [ kc2 EXCEPT ![flow.login] = second.entry ],
                         authCalls |-> 1, threw |-> FALSE ]

\* the state of the setup-aws command, the stored configuration aside
awsRun == << pc, run, siteConfig, options, awsInfo, locals, steps, calls, warned,
             exitCode, logger, oidcEnv, waitEnv, nameEnv >>

\* the entries earlier authentications and refreshes can have left
StoredEntries ==
    { NoEntry,
      [ access_token |-> 1, refresh_token |-> null, expires_at |-> null ],
      [ access_token |-> 1, refresh_token |-> 1, expires_at |-> 3 ],
      [ access_token |-> 1, refresh_token |-> 1, expires_at |-> 1 ],
      [ access_token |-> 1, refresh_token |-> null, expires_at |-> 1 ] }

\* `ssc init` has written the configuration (no githubUsername yet) or not;
\* the keychain holds what earlier authentications left for each user
InitGithub ==
    /\ InitPipeline
    /\ stored.domain = NoDomain
    /\ ~stored.hasRepo
    /\ gh = [ pc |-> "idle", now |-> 2, username |-> null, entry |-> NoEntry,
              authAt |-> {}, repoData |-> "none", git |-> "none" ]
    /\ keychain \in [ Logins -> StoredEntries ]
    /\ auth = NotRun
    /\ ora = NotRun
    /\ cli = NotRun

\* an execute that saves once the commit is made
SaveReachedBeforePush(repoData, git) ==
    repoData \in {"created", "exists"} /\ git \in {"committed", "pushed"}

\* execute, lines 74-114: none of the throws before the save was taken.
\* createRepository returns the repository it created or, after a 422
\* answer, the existing one (github.js lines 140-152); it returns null
\* otherwise.
SaveReached(repoData, git) ==
    repoData \in {"created", "exists"} /\ git = "pushed"

\* setup-github.js execute, lines 18-132, with the github.js functions it
\* calls.  githubInfo.username is never empty (collectGithubInfo validates
\* the answer), so lines 44-50 are not reachable.  flow42 and flow57 are how
\* an authenticate() call started from that line of execute ends (a call
\* started from createRepository would end as the one from line 57 did);
\* repo is what the repository requests of createRepository lead to; git is
\* the last git step that succeeded.  authAt collects the lines of execute
\* from which authenticate() was started.
SetupGithub ==
    \E username \in Logins, response \in RefreshResponses, flow42 \in Authentications :
      \* line 42: token = getAuthToken(githubInfo.username)
      \E first \in { getAuthToken(username, keychain, gh.now, response, flow42) } :
      \E ok1 \in { stored.exists /\ ~first.threw /\ first.token \notin {null, undefined} } :
      \* line 57: getAuthenticatedUser() without a username
      \E flow57 \in IF ok1 THEN Authentications ELSE { flow42 },
         userOk \in IF ok1 THEN BOOLEAN ELSE { FALSE } :
      \E verify \in { getAuthToken(null, first.keychain, gh.now, response, flow57) } :
      \E authUser \in { IF verify.threw \/ verify.token \in {null, undefined} \/ ~userOk
                        THEN null ELSE flow57.login } :
      \E ok2 \in { ok1 /\ authUser # null } :
      \* line 68: createRepository(authUsername, ...)
      \E repo \in IF ok2 THEN {"created", "exists", "noPush", "failed"} ELSE { "none" } :
      \E create \in { getAuthToken(authUser, verify.keychain, gh.now, response, flow57) } :
      \E repoData \in { IF ~ok2 THEN "none"
                        ELSE IF create.threw \/ create.token \in {null, undefined}
                        THEN "failed" ELSE repo } :
      \E ok3 \in { ok2 /\ repoData \in {"created", "exists"} } :
      \* lines 99-114: stageAll, commit, push
      \E git \in IF ok3 THEN {"none", "staged", "committed", "pushed"} ELSE { "none" } :
        /\ gh' = [ gh EXCEPT
                     !.pc = IF SaveReached(repoData, git) THEN "returned" ELSE "thrown",
                     !.username = username,
                     !.entry = keychain[username],
                     !.authAt = IF ~stored.exists THEN {}
                                ELSE { n \in {42} : first.authCalls = 1 }
                                     \cup { n \in {57} : ok1 /\ verify.authCalls = 1 }
                                     \cup { n \in {68} : ok2 /\ create.authCalls = 1 },
                     !.repoData = repoData,
                     !.git = git ]
        /\ keychain' = IF ~stored.exists THEN keychain
                       ELSE IF ~ok1 THEN first.keychain
                       ELSE IF ~ok2 THEN verify.keychain
                       ELSE create.keychain
        \* lines 121-125: the configuration is saved
        /\ stored' = IF SaveReached(repoData, git)
                     THEN [ stored EXCEPT !.hasRepo = TRUE ] ELSE stored
        /\ saveCount' = IF SaveReached(repoData, git) THEN 1 ELSE 0
        /\ UNCHANGED << awsRun, auth, ora, cli >>

SpecGithub == InitGithub /\ [][SetupGithub]_vars

\* ------------------------------------------------- the create and deploy commands
\* bin/ssc.js (the create action, lines 32-59, and the deploy action, lines
\* 116-123) and lib/commands/deploy.js (execute).  A stage is one command's
\* execute; the environment chooses whether it returns or throws.

\* a create action that deploys whenever setup-aws ran
StageAfterDeploysWithoutGithub(stage, opts) ==
    IF stage = "init" /\ ~opts.skipGithub THEN "setup-github"
    ELSE IF stage \in {"init", "setup-github"} /\ ~opts.skipAws THEN "setup-aws"
    ELSE IF stage # "deploy" /\ ~opts.skipAws THEN "deploy"
    ELSE "end"

\* create, lines 35-49: the stage that follows stage when it has returned
StageAfter(stage, opts) ==
    IF stage = "init" /\ ~opts.skipGithub THEN "setup-github"
    ELSE IF stage \in {"init", "setup-github"} /\ ~opts.skipAws THEN "setup-aws"
    ELSE IF stage # "deploy" /\ ~opts.skipGithub /\ ~opts.skipAws THEN "deploy"
    ELSE "end"

\* `ssc create` for a new site with its skip options, or `ssc deploy` for a
\* site that may have a stored configuration
InitCreate ==
    /\ InitPipeline
    /\ \E command \in {"create", "deploy"}, opts \in [ skipGithub : BOOLEAN, skipAws : BOOLEAN ] :
         /\ command = "deploy" => opts = [ skipGithub |-> FALSE, skipAws |-> FALSE ]
         /\ command = "create" => ~stored.exists
         /\ cli = [ command |-> command, options |-> opts,
                    pc |-> IF command = "create" THEN "init" ELSE "deploy",
                    ran |-> << >>, threw |-> "none",
                    built |-> "none", staged |-> "none", committed |-> "none",
                    pushed |-> "none", warnings |-> {}, reported |-> FALSE,
                    exitCode |-> -1 ]
    /\ gh = NotRun
    /\ keychain = NotRun
    /\ auth = NotRun
    /\ ora = NotRun

\* create, lines 35-44: init, setup-github or setup-aws runs and returns or
\* throws.  init saves the new configuration (init.js lines 132-137) and
\* setup-github adds the repository to it (setup-github.js lines 121-125);
\* setup-aws saves the domain it collected and the bucket name
\* (setup-aws.js lines 223-246; its steps are the subject of Spec).
RunStage ==
    /\ cli.pc \in {"init", "setup-github", "setup-aws"}
    /\ \E returns \in BOOLEAN, domain \in {NoDomain} \cup Domains :
         /\ cli.pc = "setup-github" => domain = stored.domain
         /\ cli.pc = "setup-aws" => domain = collectAwsInfo([ domain |-> stored.domain ],
                                                              stored, [ domain |-> domain ]).domain
         /\ cli.pc = "setup-aws" => Truthy(domain)
         /\ cli' = [ cli EXCEPT
                      !.ran = Append(@, cli.pc),
                      !.threw = IF returns THEN "none" ELSE cli.pc,
                      !.pc = IF returns THEN StageAfter(cli.pc, cli.options) ELSE "catch" ]
         /\ stored' = IF ~returns THEN stored
                      ELSE IF cli.pc = "init"
                      THEN [ stored EXCEPT !.exists = TRUE, !.domain = domain ]
                      ELSE IF cli.pc = "setup-github"
                      THEN [ stored EXCEPT !.hasRepo = TRUE ]
                      ELSE [ stored EXCEPT !.domain = domain, !.s3Bucket = 1 ]
    /\ UNCHANGED << awsRun, saveCount, gh, keychain, auth, ora >>

\* deploy.js execute, lines 18-75; git.js stageAll, commit and push return
\* false on failure and never throw (git.js lines 109-187)
DeployExecute ==
    /\ cli.pc = "deploy"
    /\ \E built, staged, committed, pushed \in BOOLEAN :
         LET Answer(ok) == IF ok THEN "ok" ELSE "failed"
         IN cli' = [ cli EXCEPT
                    !.ran = Append(@, "deploy"),
                    !.built = IF stored.exists THEN Answer(built) ELSE "none",
                    !.staged = IF stored.exists /\ built THEN Answer(staged) ELSE "none",
                    !.committed = IF stored.exists /\ built THEN Answer(committed) ELSE "none",
                    !.pushed = IF stored.exists /\ built THEN Answer(pushed) ELSE "none",
                    !.warnings = IF stored.exists /\ built
                                 THEN { w \in {"github"} : ~stored.hasRepo }
                                      \cup { w \in {"aws"} : stored.s3Bucket = null }
                                 ELSE {},
                    !.reported = stored.exists /\ built,
                    !.threw = IF stored.exists /\ built THEN "none" ELSE "deploy",
                    !.pc = IF stored.exists /\ built THEN "end" ELSE "catch" ]
    /\ UNCHANGED << awsRun, stored, saveCount, gh, keychain, auth, ora >>

\* create, lines 51-58, and deploy, lines 119-122: the action returns, or its
\* catch block calls process.exit(1)
Exit ==
    /\ cli.pc \in {"end", "catch"}
    /\ cli' = [ cli EXCEPT !.pc = "exited",
                           !.exitCode = IF cli.pc = "catch" THEN 1 ELSE 0 ]
    /\ UNCHANGED << awsRun, stored, saveCount, gh, keychain, auth, ora >>

SpecCreate == InitCreate /\ [][RunStage \/ DeployExecute \/ Exit]_vars

\* every awaited stage ends, so the action runs to its end
FairCreate == SpecCreate /\ WF_vars(RunStage \/ DeployExecute \/ Exit)

\* ------------------------------------------------------- the GitHub device flow
\* lib/services/github-oauth.js: one authenticate() call, and getAccessToken
\* calls before and after it, against one keychain.  Times are seconds.
\* the longest lifetime (expires_in) of the device code
MaxExpiresIn == 3

\* one getAccessToken call has not been made
NoCall == [ username |-> null, at |-> null, entry |-> NoEntry, stored |-> NoEntry,
            returns |-> null, isAuthenticated |-> FALSE ]

\* the first user may have authenticated before, the second has not
InitAuth ==
    /\ InitPipeline
    /\ ~stored.exists
    /\ keychain \in { kc \in [ Logins -> StoredEntries ] : kc[2] = NoEntry }
    /\ auth = [ pc |-> "idle", now |-> 2, expiresAt |-> null, interval |-> null,
                asked |-> null, requests |-> 0, sleeps |-> 0, slowDowns |-> 0,
                sentAt |-> null,
                answers |-> << >>, authenticated |-> FALSE, authData |-> NoEntry,
                message |-> "none", login |-> null, before |-> keychain,
                got |-> NoCall ]
    /\ gh = NotRun
    /\ ora = NotRun
    /\ cli = NotRun

\* authenticate, lines 23-67: the device code request; deviceData carries
\* expires_in and interval
RequestDeviceCode ==
    /\ auth.pc = "idle"
    /\ \E ok \in BOOLEAN, expires_in \in 1..MaxExpiresIn, interval \in 1..2 :
         auth' = IF ok
                 THEN [ auth EXCEPT !.pc = "poll", !.before = keychain,
                                    !.expiresAt = auth.now + expires_in,
                                    !.interval = interval, !.asked = interval ]
                 ELSE [ auth EXCEPT !.pc = "thrown", !.before = keychain,
                                    !.message = "Failed to get device code" ]
    /\ UNCHANGED << awsRun, stored, saveCount, gh, keychain, ora, cli >>

\* authenticate, lines 73-108: one turn of the polling loop.  The loop
\* condition is read, the interval is slept (the timer may fire late), the
\* token request is sent and its answer handled.  interval is a const
\* binding (lines 45-51), so `interval += 5` throws a TypeError, which the
\* catch of line 141 logs and rethrows.
Poll ==
    /\ auth.pc = "poll"
    /\ ~auth.authenticated /\ auth.now < auth.expiresAt
    /\ \E late \in 0..1,
          answer \in {"authorization_pending", "slow_down", "expired_token",
                      "access_denied", "token"},
          refresh_token \in {null, 1}, expires_in \in {null, 2} :
         /\ answer # "token" => refresh_token = null /\ expires_in = null
         /\ auth' = [ auth EXCEPT
                        !.now = @ + auth.interval + late,
                        !.sleeps = @ + 1,
                        !.requests = @ + 1,
                        !.slowDowns = @ + (IF answer = "slow_down" THEN 1 ELSE 0),
                        !.sentAt = auth.now + auth.interval + late,
                        !.answers = IF Len(@) < 2 THEN Append(@, answer)
                                    ELSE << @[2], answer >>,
                        !.authenticated = (answer = "token"),
                        !.authData = IF answer = "token"
                                     THEN [ access_token |-> 3,
                                            refresh_token |-> refresh_token,
                                            expires_at |-> expires_in ]
                                     ELSE @,
                        !.pc = IF answer \in {"authorization_pending", "token"}
                               THEN "poll" ELSE "thrown",
                        !.message = CASE answer = "slow_down" ->
                                           "Assignment to constant variable."
                                      [] answer = "expired_token" -> "Device code expired"
                                      [] answer = "access_denied" -> "Authentication error"
                                      [] OTHER -> @ ]
    /\ UNCHANGED << awsRun, stored, saveCount, gh, keychain, ora, cli >>

\* a flow that stores the token before it asks who the user is
StoredBeforeUserInfo(kc, authenticated, userOk, login, entry) ==
    IF authenticated THEN [ kc EXCEPT ![login] = entry ] ELSE kc

\* authenticate, lines 110-137: the keychain after the loop has ended
StoredAfterLoop(kc, authenticated, userOk, login, entry) ==
    IF authenticated /\ userOk THEN [ kc EXCEPT ![login] = entry ] ELSE kc

\* authenticate, lines 110-144: the loop has ended; time-out, or the user
\* information request, the keychain entry and the return
AfterLoop ==
    /\ auth.pc = "poll"
    /\ auth.authenticated \/ auth.now >= auth.expiresAt
    /\ \E userOk \in BOOLEAN, login \in Logins :
         LET entry == [ auth.authData EXCEPT
                          !.expires_at = IF @ # null THEN auth.now + @ ELSE null ]
         IN /\ keychain' = StoredAfterLoop(keychain, auth.authenticated, userOk, login, entry)
            /\ auth' = [ auth EXCEPT
                           !.pc = IF auth.authenticated /\ userOk THEN "returned" ELSE "thrown",
                           !.login = IF auth.authenticated /\ userOk THEN login ELSE null,
                           !.message = IF ~auth.authenticated THEN "Authentication timed out"
                                       ELSE IF ~userOk THEN "Failed to get user info"
                                       ELSE @ ]
    /\ UNCHANGED << awsRun, stored, saveCount, gh, ora, cli >>

\* getAccessToken(username), lines 152-202, and what isAuthenticated
\* (lines 209-211) makes of its result; called while no flow is polling
GetAccessToken ==
    /\ auth.pc # "poll"
    /\ \E username \in Logins, response \in RefreshResponses :
         LET call == getAccessToken(keychain[username], auth.now, response)
         IN /\ keychain' = [ keychain EXCEPT ![username] = call.entry ]
            /\ auth' = [ auth EXCEPT
                           !.got = [ username |-> username, at |-> auth.now,
                                     entry |-> keychain[username],
                                     stored |-> call.entry,
                                     returns |-> call.returns,
                                     isAuthenticated |-> call.returns # null ] ]
    /\ UNCHANGED << awsRun, stored, saveCount, gh, ora, cli >>

SpecAuth == InitAuth /\ [][RequestDeviceCode \/ Poll \/ AfterLoop \/ GetAccessToken]_vars

\* ------------------------------------------------- the logger's ora instances
\* utils/logger.js, lines 141-274: the module variable `spinner` and the ora
\* instances the functions create.  An instance is its index in texts;
\* spinning holds the instances that were started and not stopped.
\* logger calls in one behaviour
MaxLoggerCalls == 4

\* a startSpinner that leaves the previous instance running
LoggerCallKeepsPrevious(o, op, message) ==
    IF op = "startSpinner"
    THEN [ o EXCEPT !.texts = Append(@, message),
                    !.spinning = @ \cup { Len(o.texts) + 1 },
                    !.spinner = Len(o.texts) + 1,
                    !.op = op, !.calls = @ + 1 ]
    ELSE [ o EXCEPT !.op = op, !.calls = @ + 1 ]

\* one call of a function of the logger with message
LoggerCall(o, op, message) ==
    LET wasSpinning == o.spinner # null
        \* spinner.stop(), spinner.succeed(message), spinner.fail(message)
        stopped == o.spinning \ { o.spinner }
        \* spinner = ora({ text }).start()
        started(text) == [ o EXCEPT !.texts = Append(@, text),
                                    !.spinning = stopped \cup { Len(o.texts) + 1 },
                                    !.spinner = Len(o.texts) + 1 ]
        after ==
            CASE op = "startSpinner" -> started(message)
              [] op = "updateSpinner" ->
                    IF wasSpinning THEN [ o EXCEPT !.texts[o.spinner] = message ]
                    ELSE started(message)
              [] op \in {"succeed", "fail"} ->
                    IF wasSpinning
                    THEN [ o EXCEPT !.texts[o.spinner] = message,
                                    !.spinning = stopped, !.spinner = null ]
                    ELSE o
              [] op \in {"info", "warn"} ->
                    IF wasSpinning THEN started(o.texts[o.spinner]) ELSE o
              [] op \in {"error", "success"} ->
                    IF wasSpinning
                    THEN [ o EXCEPT !.spinning = stopped, !.spinner = null ]
                    ELSE o
    IN [ after EXCEPT !.op = op, !.calls = @ + 1 ]

\* line 141: let spinner = null
InitLogger ==
    /\ InitPipeline
    /\ ~stored.exists
    /\ ora = [ spinner |-> null, texts |-> << >>, spinning |-> {}, op |-> "none",
               calls |-> 0 ]
    /\ gh = NotRun
    /\ keychain = NotRun
    /\ auth = NotRun
    /\ cli = NotRun

\* any function the module exports (lines 276-285) is called
CallLogger ==
    /\ ora.calls < MaxLoggerCalls
    /\ \E op \in {"startSpinner", "updateSpinner", "succeed", "fail", "info", "warn",
                  "error", "success"},
          message \in {"a", "b"} :
         ora' = LoggerCall(ora, op, message)
    /\ UNCHANGED << awsRun, stored, saveCount, gh, keychain, auth, cli >>

SpecLogger == InitLogger /\ [][CallLogger]_vars

\* ------------------------------------------------------------------ claims

\* the set of step functions called so far in this run
Attempted == { steps[i] : i \in 1..Len(steps) }

\* the run has tried to create the bucket and failed
BucketFailed == Len(steps) > 0 /\ bucketResult = null

\* C1: in every run where storage-bucket creation fails, no later step is
\* entered and no remote command other than CreateBucket is sent, nothing is
\* saved, and the stored record holds no field (bucket, zone, certificate,
\* function, distribution) of that run.
C1_BucketFailureStopsRun ==
    BucketFailed =>
        /\ steps = << "createS3Bucket" >>
        /\ calls = {"CreateBucket"}
        /\ pc \in {"thrown", "exited"}
        /\ saveCount = 0
        /\ stored.cloudfrontDistribution # run
        /\ stored.cloudfrontFunctionArn # run
        /\ stored.acmCertificateArn # run
        /\ stored.route53HostedZoneId # run
        /\ stored.s3Bucket # run
        /\ policyResult = null /\ roleResult = null /\ distributionResult = null

\* a second run whose bucket creation failed, after a run that created a
\* distribution, has exited
C1_Witness ==
    /\ BucketFailed
    /\ pc = "exited"
    /\ run = 2
    /\ stored.cloudfrontDistribution = 1

ClaimedRank ==
    [ s \in {"createS3Bucket", "createHostedZone", "requestCertificate",
             "getCertificateValidationRecords", "createDnsValidationRecords",
             "waitForCertificateValidation", "createCloudfrontFunction",
             "createCloudFrontDistribution", "updateS3BucketPolicy",
             "createCloudFrontDnsRecords", "createIamPolicy", "createIamRole",
             "createOrGetGithubOidcProvider", "createWorkflowFile"} |->
      CASE s = "createS3Bucket" -> 1
        [] s = "createHostedZone" -> 2
        [] s = "requestCertificate" -> 3
        [] s = "getCertificateValidationRecords" -> 4
        [] s = "createDnsValidationRecords" -> 5
        [] s = "waitForCertificateValidation" -> 6
        [] s = "createCloudfrontFunction" -> 7
        [] s = "createCloudFrontDistribution" -> 8
        [] s = "updateS3BucketPolicy" -> 9
        [] s = "createCloudFrontDnsRecords" -> 10
        [] s = "createIamPolicy" -> 11
        [] s = "createIamRole" -> 12
        [] s = "createOrGetGithubOidcProvider" -> 13
        [] OTHER -> 14 ]

\* the same order with the edge function before the issuance wait
ActualRank ==
    [ ClaimedRank EXCEPT !["createCloudfrontFunction"] = 6,
                         !["waitForCertificateValidation"] = 7 ]

StepsFollow(rank) ==
    \A i, j \in 1..Len(steps) : i < j => rank[steps[i]] < rank[steps[j]]

Provisioning == pc \notin {"idle", "bucket", "thrown", "returned", "exited"}

C5_DistributionWithoutFunction ==
    pc = "returned" =>
        /\ "createCloudFrontDistribution" \in Attempted
        /\ distConfig # << >>
        /\ distConfig[1].functionAssociations =
              (IF functionResult # null THEN {functionResult} ELSE {})

\* C5 (amended): the distribution is attempted in exactly the runs in which
\* the bucket was created and the edge function was created and published;
\* when the function failed the distribution is skipped with a warning; every
\* submitted configuration has this run's function attached.
C5_DistributionNeedsFunction ==
    /\ pc \in {"returned", "exited"} /\ bucketResult # null =>
         ("createCloudFrontDistribution" \in Attempted <=> functionResult # null)
    /\ distConfig # << >> =>
         (functionResult # null /\ distConfig[1].functionAssociations = {functionResult})
    /\ pc \in {"returned", "exited"} /\ bucketResult # null /\ functionResult = null =>
         "CloudFront function not created. Skipping CloudFront distribution setup." \in warned

\* a run whose function was created but not published returned without
\* attempting the distribution
C5_Witness ==
    /\ pc = "returned"
    /\ functionCreated # null /\ functionResult = null
    /\ "createCloudFrontDistribution" \notin Attempted

\* the remote commands and step functions that exist only for a domain
DomainCalls ==
    {"CreateHostedZone", "RequestCertificate", "DescribeCertificate",
     "ChangeResourceRecordSets(validation)", "ChangeResourceRecordSets(alias)"}

DomainSteps ==
    {"createHostedZone", "requestCertificate", "getCertificateValidationRecords",
     "createDnsValidationRecords", "waitForCertificateValidation",
     "createCloudFrontDnsRecords"}

NoDomainRun == Len(steps) > 0 /\ ~Truthy(awsInfo.domain)

Finished == pc = "exited" /\ Len(steps) > 0

\* what the claims call the run's final status
ClaimedStatus ==
    IF bucketResult = null THEN "aborted"
    ELSE IF warned = {} THEN "complete"
    ELSE "partial"

\* what the command shows its caller: the success message and exit code 0,
\* or the error and exit code 1
ReportedStatus == IF exitCode = 0 THEN "complete" ELSE "aborted"

FailureMessages ==
    {"Failed to create Route53 hosted zone", "Failed to request ACM certificate",
     "Certificate validation records not available yet",
     "Failed to create DNS validation records", "Failed to create CloudFront function",
     "Failed to create CloudFront distribution", "Failed to update S3 bucket policy",
     "Failed to create DNS records", "Failed to create IAM policy",
     "Failed to create IAM role", "Failed to create GitHub workflow file"}

\* failures of steps that other steps depend on
HardFailureMessages ==
    {"Failed to create Route53 hosted zone", "Failed to request ACM certificate",
     "Certificate validation records not available yet",
     "Failed to create CloudFront distribution"}

\* C8: the command exits with code 0 only if every attempted step succeeded,
\* and with a non-zero code whenever the bucket, the hosted zone, the
\* certificate request, the validation-record retrieval or the distribution
\* failed.
C8_ExitCodeReflectsFailures ==
    Finished =>
        /\ exitCode = 0 => (bucketResult # null /\ warned \cap FailureMessages = {}
                            /\ waitOutcome \in {"none", "issued"})
        /\ (bucketResult = null \/ warned \cap HardFailureMessages # {}) => exitCode # 0

\* C9: after the issuance wait saw the status FAILED, the distribution
\* submitted in the same run carries neither the alias nor the ACM certificate.
C9_FailedCertificateNotAttached ==
    (waitOutcome = "failed" /\ distConfig # << >>) =>
        /\ distConfig[1].aliases = {}
        /\ distConfig[1].ACMCertificateArn = null

\* C10 as stated: after the issuance wait timed out the distribution is still
\* created, without ACMCertificateArn and with the default CDN certificate.
C10_TimeoutFallsBackToDefault ==
    (waitOutcome = "timeout" /\ pc # "dist") =>
        /\ distConfig # << >>
        /\ distConfig[1].ACMCertificateArn = null
        /\ distConfig[1].CloudFrontDefaultCertificate

\* C10 (amended): after the issuance wait timed out (certificateValidated is
\* false) execute warns and still attempts the distribution, and the
\* configuration it submits carries the domain alias and the ACM certificate
\* ARN of the requested certificate, not the default CDN certificate.
C10_TimeoutKeepsCertificate ==
    waitOutcome = "timeout" =>
        /\ ~certificateValidated
        /\ "Proceeding with CloudFront distribution creation" \in warned
        /\ certificateResult # null
        /\ \/ pc = "dist"
           \/ /\ "createCloudFrontDistribution" \in Attempted
              /\ distConfig # << >>
              /\ distConfig[1].ACMCertificateArn = certificateResult
              /\ ~distConfig[1].CloudFrontDefaultCertificate
              /\ distConfig[1].aliases = {awsInfo.domain}

\* the wait timed out and the distribution was created all the same
C10_Witness ==
    /\ waitOutcome = "timeout"
    /\ distributionResult # null
    /\ pc = "returned"

\* C11: in every distribution configuration the pipeline submits the alias
\* list is non-empty exactly when the viewer certificate is the ACM
\* certificate: a domain whose certificate request failed yields no alias.
C11_AliasIffAcmCertificate ==
    distConfig # << >> =>
        /\ distConfig[1].aliases # {} <=> distConfig[1].ACMCertificateArn # null
        /\ distConfig[1].aliases # {} <=> ~distConfig[1].CloudFrontDefaultCertificate

\* step a of this run was entered before step b
Before(a, b) ==
    \E i, j \in 1..Len(steps) : i < j /\ steps[i] = a /\ steps[j] = b

\* C12: the bucket-policy update and the DNS alias upsert are attempted only
\* after distribution creation succeeded in the same run; the bucket policy's
\* source-ARN condition is the ARN of that distribution; alias records are
\* attempted only if the hosted zone was created too, are written to it, and
\* point the domain at that distribution's domain name with the fixed CDN
\* alias zone identifier.
C12_DownstreamOfDistribution ==
    /\ requests.bucketPolicy # << >> <=> "updateS3BucketPolicy" \in Attempted
    /\ requests.alias # << >> <=> "createCloudFrontDnsRecords" \in Attempted
    /\ "updateS3BucketPolicy" \in Attempted =>
         /\ distributionResult = run
         /\ Before("createCloudFrontDistribution", "updateS3BucketPolicy")
         /\ requests.bucketPolicy[1].Bucket = bucketResult
         /\ requests.bucketPolicy[1].SourceArn = << "arn:aws:cloudfront", run >>
    /\ "createCloudFrontDnsRecords" \in Attempted =>
         /\ distributionResult = run
         /\ hostedZoneResult = run
         /\ Before("createCloudFrontDistribution", "createCloudFrontDnsRecords")
         /\ Before("createHostedZone", "createCloudFrontDnsRecords")
         /\ requests.alias[1].HostedZoneId = << hostedZoneResult >>
         /\ \A i \in 1..Len(requests.alias[1].Changes) :
              LET change == requests.alias[1].Changes[i] IN
              /\ change.Action = "UPSERT"
              /\ change.Name = awsInfo.domain
              /\ change.AliasTarget.HostedZoneId = "Z2FDTNDATAQYW2"
              /\ change.AliasTarget.DNSName = << run, ".cloudfront.net" >>

\* a second run updated the bucket policy and wrote the alias records
C12_Witness ==
    /\ run = 2
    /\ pc = "returned"
    /\ {"updateS3BucketPolicy", "createCloudFrontDnsRecords"} \subseteq Attempted

\* C13: DNS validation records are upserted only when the hosted zone was
\* created in this run and the validation-record poll returned records; they
\* are written to that hosted zone and are exactly the records the poll
\* returned.  When either precondition is false no upsert is issued and the
\* run goes on to the edge function.
C13_ValidationUpsert ==
    /\ requests.validation # << >> <=> "createDnsValidationRecords" \in Attempted
    /\ requests.validation # << >> <=> "ChangeResourceRecordSets(validation)" \in calls
    /\ requests.validation # << >> =>
         LET sent == requests.validation[1] IN
         /\ hostedZoneResult = run
         /\ validationRecords # NoRecords
         /\ Before("getCertificateValidationRecords", "createDnsValidationRecords")
         /\ sent.HostedZoneId = << hostedZoneResult >>
         /\ Len(sent.Changes) = Len(validationRecords)
         /\ \A i \in 1..Len(validationRecords) :
              /\ sent.Changes[i].Action = "UPSERT"
              /\ sent.Changes[i].Name = validationRecords[i].name
              /\ sent.Changes[i].Type = validationRecords[i].type
              /\ sent.Changes[i].Value = validationRecords[i].value
    /\ (hostedZoneResult = null \/ validationRecords = NoRecords) =>
         /\ requests.validation = << >>
         /\ "ChangeResourceRecordSets(validation)" \notin calls
         /\ pc # "dnsval"
         /\ (bucketResult # null /\ pc \in {"returned", "exited"}) =>
              "createCloudfrontFunction" \in Attempted

\* a second run wrote two validation records into its hosted zone
C13_Witness ==
    /\ run = 2
    /\ pc = "returned"
    /\ requests.validation # << >>
    /\ Len(requests.validation[1].Changes) = 2

\* a run with a hosted zone whose poll returned no records went on and returned
C13_WitnessNoRecords ==
    /\ pc = "returned"
    /\ hostedZoneResult # null /\ certificateResult # null
    /\ "getCertificateValidationRecords" \in Attempted
    /\ validationRecords = NoRecords

\* the actions the deploy policy is meant to allow
DeployActions ==
    { "s3:PutObject", "s3:GetObject", "s3:ListBucket", "s3:DeleteObject",
      "cloudfront:CreateInvalidation" }

\* C14: every IAM deploy policy the pipeline creates lists as
\* resources exactly the bucket ARN of this run, its objects, and the ARN of
\* the distribution created in this run, and no other ARN, and allows only
\* the object put/get/list/delete and cache-invalidation actions.
C14_PolicyScopedToRunResources ==
    requests.iamPolicy # << >> =>
        /\ requests.iamPolicy[1].Action = DeployActions
        /\ distributionResult = run
        /\ requests.iamPolicy[1].Resource =
              { << "arn:aws:s3:::", run >>, << "arn:aws:s3:::", run, "/*" >>,
                << "arn:aws:cloudfront", run >> }

\* C15: every role the pipeline creates has a trust policy that allows
\* sts:AssumeRoleWithWebIdentity to the discovered or created provider ARN
\* only, with the audience condition and a subject condition bound to the
\* repository (owner/repo) of the run; no CreateRole is sent with a condition
\* missing or without a provider ARN.
C15_TrustPolicyBound ==
    /\ "CreateRole" \in calls <=> requests.trustPolicy # << >>
    /\ roleCreated # null => requests.trustPolicy # << >>
    /\ requests.trustPolicy # << >> =>
         LET trust == requests.trustPolicy[1] IN
         /\ siteConfig.hasRepo
         /\ providerArn # null
         /\ trust.Effect = "Allow"
         /\ trust.Federated = providerArn
         /\ trust.Action = "sts:AssumeRoleWithWebIdentity"
         /\ DOMAIN trust.StringEquals = {"aud"}
         /\ trust.StringEquals.aud = "sts.amazonaws.com"
         /\ DOMAIN trust.StringLike = {"sub"}
         /\ trust.StringLike.sub = << "repo:", "owner", "/", "site", ":*" >>

\* a role was created and attached for a provider found in the account
C15_Witness ==
    /\ pc = "returned"
    /\ roleResult # null
    /\ providerArn < 0
    /\ requests.trustPolicy # << >>

\* the IAM commands and the step functions of the identity block
IamCalls ==
    {"CreatePolicy", "ListOpenIDConnectProviders", "GetOpenIDConnectProvider",
     "CreateOpenIDConnectProvider", "CreateRole", "AttachRolePolicy"}

IamSteps == {"createIamPolicy", "createIamRole", "createOrGetGithubOidcProvider"}

C16_WitnessSkipped ==
    /\ pc = "returned"
    /\ ~siteConfig.hasRepo
    /\ distributionResult # null
    /\ saveCount = 1

\* C17 as stated: the policy is created only after a provider ARN is
\* available and the role only after the policy; no IAM policy is created in
\* a run in which the OIDC provider could not be discovered or created.
C17_PolicyAfterProvider ==
    /\ "CreatePolicy" \in calls =>
         Before("createOrGetGithubOidcProvider", "createIamPolicy")
    /\ (pc \in {"returned", "exited"} /\ policyResult # null) => providerArn # null
    /\ "CreateRole" \in calls => policyResult # null

\* C17 (amended): the policy is created first, before any provider lookup;
\* the provider is discovered or created only after the policy was created,
\* inside the role step; the role is created only after both the policy and
\* a provider ARN are available.  A run in which the provider could not be
\* discovered or created keeps the policy it created and creates no role.
C17_ProviderAfterPolicy ==
    /\ "createOrGetGithubOidcProvider" \in Attempted =>
         /\ policyResult # null
         /\ Before("createIamPolicy", "createIamRole")
         /\ Before("createIamRole", "createOrGetGithubOidcProvider")
    /\ calls \cap {"ListOpenIDConnectProviders", "GetOpenIDConnectProvider",
                   "CreateOpenIDConnectProvider"} # {} =>
         ("CreatePolicy" \in calls /\ policyResult # null)
    /\ "CreateRole" \in calls => (policyResult # null /\ providerArn # null)
    /\ (pc \in {"save", "returned", "exited"} /\ "createIamRole" \in Attempted
          /\ providerArn = null) =>
         /\ policyResult # null
         /\ "CreateRole" \notin calls
         /\ roleResult = null
         /\ "Failed to create IAM role" \in warned

\* a run created the policy, failed to create the provider and returned
C17_Witness ==
    /\ pc = "returned"
    /\ policyResult # null
    /\ providerArn = null
    /\ "CreateOpenIDConnectProvider" \in calls
    /\ "CreateRole" \notin calls

\* GitHub's provider was among the providers the current pass listed
ListedGithub == \E i \in 1..oidc.listed : account[i].url = GithubIssuer

\* its position in the account
GithubAt == CHOOSE i \in 1..Len(account) : account[i].url = GithubIssuer

\* what the calls made so far returned, the current one included once it is over
AllResults == results \o (IF Returned THEN << providerArn >> ELSE << >>)

\* C18: when a provider with GitHub's issuer is listed and its lookup
\* succeeds, createOrGetGithubOidcProvider returns that provider's ARN without
\* sending the create command and inspects no provider after the match; the
\* create command is sent only when no listed provider matched; consecutive
\* calls that return a provider return the same ARN.
C18_ExistingProviderReused ==
    /\ (Returned /\ oidc.pass = 1 /\ ListedGithub /\ ~lookupFailed) =>
         /\ pc = "createrole"
         /\ providerArn = account[GithubAt].arn
         /\ "CreateOpenIDConnectProvider" \notin calls
         /\ createOutcome = "none"
         /\ oidc.listed - oidc.left = GithubAt
    /\ pc = "oidc_create" =>
         /\ oidc.pass = 1 /\ oidc.left = 0 /\ providerArn = null
         /\ lookupFailed \/ ~ListedGithub
    /\ "CreateOpenIDConnectProvider" \in calls <=> createOutcome # "none"
    /\ \A i, j \in 1..Len(AllResults) :
         (AllResults[i] # null /\ AllResults[j] # null) => AllResults[i] = AllResults[j]

\* two calls in a row found the provider listed second and returned its ARN,
\* the second without a create command
C18_Witness ==
    /\ Len(results) = 1
    /\ results[1] = -2
    /\ Returned
    /\ providerArn = -2
    /\ oidc.listed - oidc.left = 2
    /\ oidc.left = 0
    /\ "CreateOpenIDConnectProvider" \notin calls

\* C19: when the create command fails with EntityAlreadyExistsException the
\* function lists and inspects the providers a second time and, that lookup
\* succeeding, returns the matching provider's ARN instead of failing; any
\* other create error makes it return no provider, without a second lookup.
C19_AlreadyExistsLooksUpAgain ==
    /\ createOutcome = "EntityAlreadyExistsException" =>
         /\ HasGithub(account)
         /\ pc \in {"oidc_list", "oidc_get", "createrole", "save"}
         /\ pc = "oidc_list" <=> oidc.pass = 1
         /\ pc # "oidc_list" =>
              /\ oidc.pass = 2
              /\ lookupFailed \/ ListedGithub
         /\ (Returned /\ ~lookupFailed) =>
              /\ pc = "createrole"
              /\ providerArn # null
              /\ providerArn = account[GithubAt].arn
         /\ (Returned /\ lookupFailed) => (pc = "save" /\ providerArn = null)
    /\ createOutcome = "error" =>
         /\ pc = "save"
         /\ providerArn = null
         /\ oidc.pass = 1
         /\ "Failed to create IAM role" \in warned
    /\ oidc.pass = 2 => createOutcome = "EntityAlreadyExistsException"

\* the provider appeared after an empty listing, the create command failed
\* with EntityAlreadyExistsException and the second lookup returned its ARN
C19_Witness ==
    /\ createOutcome = "EntityAlreadyExistsException"
    /\ pc = "createrole"
    /\ oidc.pass = 2
    /\ providerArn = account[GithubAt].arn
    /\ ~lookupFailed
    /\ Len(account) = 1

\* the create command failed for another reason and no provider was returned
C19_WitnessOtherError ==
    /\ createOutcome = "error"
    /\ pc = "save"
    /\ ~HasGithub(account)

\* the fields of the persisted record
RecordFields == DOMAIN stored

\* C20 as stated: after a run the persisted record holds the identifier of
\* every step that succeeded in it: bucket name and ARN, hosted-zone ID and
\* name servers, certificate ARN, edge-function ARN, distribution ID, ARN and
\* domain and, when they were created, the provider, policy and role ARNs.
C20_RecordHoldsEveryIdentifier ==
    pc = "returned" =>
        /\ stored.s3Bucket = bucketResult
        /\ hostedZoneResult # null =>
             (stored.route53HostedZoneId = hostedZoneResult
                /\ "route53NameServers" \in RecordFields)
        /\ certificateResult # null => stored.acmCertificateArn = certificateResult
        /\ functionResult # null => stored.cloudfrontFunctionArn = functionResult
        /\ distributionResult # null => stored.cloudfrontDistribution = distributionResult
        /\ providerArn # null => "oidcProviderArn" \in RecordFields
        /\ policyResult # null => "iamPolicyArn" \in RecordFields
        /\ roleResult # null => "iamRoleArn" \in RecordFields

\* C20 (amended): after a run that returned, the persisted record holds the
\* domain, the bucket name and ARN of this run and, for each of them that
\* succeeded in this run, the hosted-zone ID, the certificate ARN, the
\* edge-function ARN and the distribution ID, ARN and domain; for a step that
\* did not succeed the record holds nothing of this run.  The record has no
\* field for the name servers or for the provider, policy and role ARNs.
C20_RecordHoldsPipelineIdentifiers ==
    /\ RecordFields = {"exists", "domain", "hasRepo", "s3Bucket", "route53HostedZoneId",
                       "acmCertificateArn", "cloudfrontFunctionArn",
                       "cloudfrontDistribution"}
    /\ pc = "returned" =>
         /\ stored.domain = awsInfo.domain
         /\ stored.s3Bucket = run /\ bucketResult = run
         /\ stored.route53HostedZoneId = run <=> hostedZoneResult # null
         /\ stored.acmCertificateArn = run <=> certificateResult # null
         /\ stored.cloudfrontFunctionArn = run <=> functionResult # null
         /\ stored.cloudfrontDistribution = run <=> distributionResult # null

\* a second run in which every step succeeded, the role included, has returned
C20_Witness ==
    /\ pc = "returned"
    /\ run = 2
    /\ hostedZoneResult # null /\ certificateResult # null
    /\ functionResult # null /\ distributionResult # null
    /\ providerArn # null /\ policyResult # null /\ roleResult # null

\* the resource fields of the persisted record
ResourceFields ==
    {"s3Bucket", "route53HostedZoneId", "acmCertificateArn", "cloudfrontFunctionArn",
     "cloudfrontDistribution"}

\* C21: every resource field of the record persisted by a run refers to a
\* resource provisioned by that run; the fields of a step that did not
\* succeed in this run are absent and never carry identifiers of an earlier
\* run next to this run's bucket.
C21_RecordOfThisRunOnly ==
    (pc = "returned" /\ saveCount = 1) =>
        \A f \in ResourceFields : stored[f] \in {null, run}

\* C22: every resource whose create command succeeded during a run is in the
\* record the run persists, even when a later command failed: an edge
\* function whose publish command failed and a role whose policy attachment
\* failed are recorded too.
C22_CreatedMeansRecorded ==
    pc = "returned" =>
        /\ bucketResult # null => stored.s3Bucket = bucketResult
        /\ functionCreated # null => stored.cloudfrontFunctionArn = functionCreated
        /\ roleCreated # null => "iamRoleArn" \in RecordFields

\* a step result, once obtained, is the same after the step
Kept(before, after) == before # null => after = before

\* C23: within one run a step's result (bucket, hosted zone, certificate,
\* function, distribution), once obtained, is never cleared or overwritten
\* by a later step, whatever fails later, and the record persisted at the end
\* of the run carries it unchanged.
C23_ResultsAppendOnly ==
    /\ [][ run' = run =>
             /\ Kept(bucketResult, bucketResult')
             /\ Kept(hostedZoneResult, hostedZoneResult')
             /\ Kept(certificateResult, certificateResult')
             /\ Kept(functionResult, functionResult')
             /\ Kept(distributionResult, distributionResult') ]_vars
    /\ [](pc = "returned" =>
             /\ Kept(bucketResult, stored.s3Bucket)
             /\ Kept(hostedZoneResult, stored.route53HostedZoneId)
             /\ Kept(certificateResult, stored.acmCertificateArn)
             /\ Kept(functionResult, stored.cloudfrontFunctionArn)
             /\ Kept(distributionResult, stored.cloudfrontDistribution))

\* a run kept zone, certificate and function although the distribution, the
\* policy and the validation records failed, and persisted them
C23_Witness ==
    /\ pc = "returned"
    /\ hostedZoneResult = run /\ certificateResult = run /\ functionResult = run
    /\ stored.acmCertificateArn = run
    /\ {"Failed to create CloudFront distribution", "Failed to create IAM policy",
        "Certificate validation records not available yet"} \subseteq warned

\* which wait loop the run is in or has left
InRecordPoll == "getCertificateValidationRecords" \in Attempted \/ pc = "valrec"
InIssuanceWait == "waitForCertificateValidation" \in Attempted \/ pc = "wait"

\* the loop has returned with its value / without it
RecordPollSucceeded == InRecordPoll /\ pc = "dnsval"
RecordPollTimedOut == InRecordPoll /\ pc = "function"
IssuanceWaitOver == InIssuanceWait /\ pc = "dist"

\* C24: in both wait loops, when the remote check is pending N times and
\* ready on check N+1 (N below the attempt limit), the loop reports success
\* after exactly N+1 describe commands with one interval sleep between
\* consecutive commands, and sends no command and takes no sleep after the
\* ready one.
C24_ReadyAfterPendings ==
    /\ pc = "valrec" =>
         (checks = retries /\ sleeps = checks /\ lastAnswer \in {"none", "pending", "error"})
    /\ pc = "wait" =>
         (checks = attempts /\ sleeps = checks /\ lastAnswer \notin {"ISSUED", "FAILED"})
    /\ RecordPollSucceeded =>
         /\ lastAnswer = "records"
         /\ validationRecords # NoRecords
         /\ checks \in 1..maxRetries
         /\ sleeps = checks - 1
    /\ (IssuanceWaitOver /\ lastAnswer = "ISSUED") =>
         /\ waitOutcome = "issued"
         /\ certificateValidated
         /\ checks \in 1..maxAttempts
         /\ sleeps = checks - 1
    /\ (IssuanceWaitOver /\ waitOutcome = "issued") => lastAnswer = "ISSUED"

\* the certificate was issued at the fourth check, after three sleeps
C24_Witness ==
    /\ IssuanceWaitOver
    /\ waitOutcome = "issued"
    /\ checks = 4 /\ sleeps = 3 /\ errors = 0

\* the validation records arrived at the third describe command
C24_WitnessRecords ==
    /\ RecordPollSucceeded
    /\ checks = 3 /\ sleeps = 2

\* C25: in both wait loops, when the remote check is pending on every call,
\* the loop ends with its timeout result after exactly maxAttempts describe
\* commands (5 for the validation records, 2 x maxWaitMinutes = 30 for the
\* issuance) and never sends more.
C25_TimeoutAfterMaxAttempts ==
    /\ maxAttempts = 2 * maxWaitMinutes
    /\ InRecordPoll => checks <= maxRetries
    /\ InIssuanceWait => checks <= maxAttempts
    /\ RecordPollTimedOut =>
         /\ checks = maxRetries
         /\ validationRecords = NoRecords
         /\ "Certificate validation records not available yet" \in warned
    /\ (IssuanceWaitOver /\ waitOutcome = "timeout") =>
         /\ checks = maxAttempts
         /\ ~certificateValidated
    /\ (IssuanceWaitOver /\ lastAnswer \notin {"ISSUED", "FAILED"}) =>
         waitOutcome = "timeout"

\* thirty pending answers, none of them an error: the wait timed out
C25_Witness ==
    /\ IssuanceWaitOver
    /\ waitOutcome = "timeout"
    /\ checks = maxAttempts /\ errors = 0

\* five describe commands without a resource record
C25_WitnessRecords ==
    /\ RecordPollTimedOut
    /\ checks = maxRetries /\ errors = 0

C27_ErrorsArePending ==
    /\ pc # "thrown"
    /\ errors <= checks
    /\ (InRecordPoll /\ lastAnswer = "error") =>
         /\ sleeps = checks
         /\ retries = checks \/ RecordPollTimedOut
         /\ pc = "valrec" \/ (RecordPollTimedOut /\ checks = maxRetries)
    /\ (InIssuanceWait /\ lastAnswer = "error") =>
         /\ sleeps = checks
         /\ attempts = checks \/ IssuanceWaitOver
         /\ pc = "wait" \/ (IssuanceWaitOver /\ waitOutcome = "timeout"
                                             /\ checks = maxAttempts)
    /\ (RecordPollSucceeded \/ RecordPollTimedOut) /\ errors = checks =>
         (RecordPollTimedOut /\ checks = maxRetries /\ validationRecords = NoRecords)
    /\ IssuanceWaitOver /\ errors = checks =>
         (waitOutcome = "timeout" /\ checks = maxAttempts /\ ~certificateValidated)

\* every one of the thirty describe commands raised
C27_Witness ==
    /\ IssuanceWaitOver
    /\ errors = maxAttempts
    /\ checks = maxAttempts
    /\ waitOutcome = "timeout"

\* every one of the five record polls raised
C27_WitnessRecords ==
    /\ RecordPollTimedOut
    /\ errors = maxRetries

\* the creating command each position of the pipeline is about to send
CreatingCallAt ==
    [ bucket |-> "CreateBucket",
      zone |-> "CreateHostedZone",
      cert |-> "RequestCertificate",
      dnsval |-> "ChangeResourceRecordSets(validation)",
      function |-> "CreateFunction",
      dist |-> "CreateDistribution",
      bucketpolicy |-> "PutBucketPolicy",
      alias |-> "ChangeResourceRecordSets(alias)",
      iam |-> "CreatePolicy",
      oidc_create |-> "CreateOpenIDConnectProvider",
      createrole |-> "CreateRole" ]

\* the values a step function hands back: this run's resource or null
StepResults == {null, run}

\* C28: no provisioning step function lets the error of a remote command
\* escape: whatever command fails, the function returns null or false to the
\* pipeline (which throws only by itself, after a failed bucket creation),
\* and it sends its creating command at most once in a run.
C28_StepErrorsAreValues ==
    /\ pc = "thrown" =>
         \/ steps = << >>
         \/ steps = << "createS3Bucket" >> /\ bucketResult = null
    /\ \A position \in DOMAIN CreatingCallAt :
         pc = position => CreatingCallAt[position] \notin calls
    /\ \A i, j \in 1..Len(steps) : steps[i] = steps[j] => i = j
    /\ {bucketResult, hostedZoneResult, certificateResult, functionCreated,
        functionResult, distributionResult, policyResult, roleCreated,
        roleResult} \subseteq StepResults
    /\ certificateValidated \in BOOLEAN

\* a run in which the hosted zone, the distribution and the IAM policy all
\* failed remotely and which returned all the same
C28_Witness ==
    /\ pc = "returned"
    /\ {"createHostedZone", "createCloudFrontDistribution", "createIamPolicy"}
         \subseteq Attempted
    /\ hostedZoneResult = null
    /\ distributionResult = null
    /\ policyResult = null

\* the provider existed already: the create command failed and was not repeated
C28_WitnessProvider ==
    /\ pc = "returned"
    /\ "CreateOpenIDConnectProvider" \in calls
    /\ oidc.pass = 1

\* C29: every step that emits a start notification emits exactly one terminal
\* notification (success or failure) before the next step's start
\* notification: no progress indicator is left live or silently replaced,
\* also when validation records never appear, when the issuance wait times
\* out, and when the OIDC provider setup runs inside role creation.
C29_OneTerminalPerStart ==
    /\ logger.replaced = {}
    /\ \A f \in StepNames : logger.terminals[f] <= 1
    /\ pc \in {"returned", "thrown"} =>
         /\ logger.spinner = NoSpinner
         /\ \A f \in Attempted : logger.terminals[f] = 1

\* the spinner of the record poll was still live when the next step started
C29_RecordPollReplaced ==
    /\ "getCertificateValidationRecords" \in logger.replaced
    /\ logger.terminals["getCertificateValidationRecords"] = 0
    /\ validationRecords = NoRecords

\* the spinner of the issuance wait was still live after its timeout
C29_WaitTimeoutReplaced ==
    /\ "waitForCertificateValidation" \in logger.replaced
    /\ logger.terminals["waitForCertificateValidation"] = 0
    /\ waitOutcome = "timeout"

\* the spinner of createIamRole was replaced by the provider setup's
C29_RoleSpinnerReplaced ==
    /\ pc = "returned"
    /\ roleResult # null
    /\ "createIamRole" \in logger.replaced
    /\ logger.terminals["createOrGetGithubOidcProvider"] = 2

\* C30: every resource name a run uses (bucket, edge function, IAM policy,
\* IAM role) is the site identifier plus a time-based suffix, so two runs for
\* different sites never use the same name and two runs for the same site at
\* different times do not collide on any resource name.
C30_NamesNeverCollide ==
    /\ \A u \in used : u.name = u.site \o << "-" >> \o LastSixDigits(u.time)
    /\ \A u, v \in used :
         (u.kind = v.kind /\ u.site # v.site) => u.name # v.name
    /\ \A u, v \in used :
         (u.kind = v.kind /\ u.site = v.site /\ u.time # v.time) => u.name # v.name

\* runs for different sites never share a name of the same kind
C30_DifferentSitesDiffer ==
    \A u, v \in used : (u.kind = v.kind /\ u.site # v.site) => u.name # v.name

\* two runs for the same site one millisecond apart: only the bucket differs
C30_SameSiteCollides ==
    \E u, v \in used :
        /\ u.site = v.site /\ u.time + 1 = v.time
        /\ u.kind = "function" /\ v.kind = "function" /\ u.name = v.name

\* two runs for the same site 1000 s apart use the same bucket name
C30_BucketSuffixWraps ==
    \E u, v \in used :
        /\ u.site = v.site /\ u.time + 1000000 = v.time
        /\ u.kind = "bucket" /\ v.kind = "bucket" /\ u.name = v.name

\* the keychain entry is a token that getAccessToken can hand out at time now
\* without refreshing it
UsableToken(entry, now) ==
    /\ entry # NoEntry
    /\ entry.access_token \notin {null, undefined}
    /\ entry.expires_at = null \/ now <= entry.expires_at

\* C31: when setup-github runs for a username whose stored token is valid and
\* not expired, the device-flow authentication is not started; authenticate()
\* is invoked only when no usable stored token exists, and at most once per
\* setup-github run.
C31_AuthenticateOnlyWithoutToken ==
    gh.pc \in {"returned", "thrown"} =>
        /\ UsableToken(gh.entry, gh.now) => gh.authAt = {}
        /\ Cardinality(gh.authAt) <= 1

\* a run for a user with a usable token that started the device flow from the
\* verification call of line 57
C31_AuthenticatedDespiteToken ==
    /\ gh.pc = "returned"
    /\ UsableToken(gh.entry, gh.now)
    /\ gh.authAt = {57}

\* a run that started the device flow twice
C31_AuthenticatedTwice ==
    /\ gh.pc = "returned"
    /\ gh.authAt = {42, 57}

\* the stages of the create command a run with these options is to run
WantedStages(opts) ==
    LET wanted(stage) ==
            \/ stage = "init"
            \/ stage = "setup-github" /\ ~opts.skipGithub
            \/ stage = "setup-aws" /\ ~opts.skipAws
            \/ stage = "deploy" /\ ~opts.skipGithub /\ ~opts.skipAws
    IN SelectSeq(<< "init", "setup-github", "setup-aws", "deploy" >>, wanted)

\* s is a prefix of t
Prefix(s, t) == Len(s) <= Len(t) /\ s = SubSeq(t, 1, Len(s))

C32_Order ==
    cli.command = "create" =>
        \* the stages that ran are the first wanted stages, in order
        /\ Prefix(cli.ran, WantedStages(cli.options))
        \* nothing ran after the stage that threw
        /\ cli.threw # "none" => cli.ran[Len(cli.ran)] = cli.threw
        /\ cli.pc = "exited" =>
             /\ cli.exitCode = IF cli.threw # "none" THEN 1 ELSE 0
             /\ cli.threw = "none" => cli.ran = WantedStages(cli.options)

\* C32: the create command runs its stages strictly in the order init,
\* setup-github, setup-aws, deploy; a stage that throws prevents every later
\* stage from running and makes the process exit with code 1; setup-github
\* and setup-aws are each skipped exactly when their skip flag is set, and
\* deploy runs only if neither was skipped.
C32_StagesInOrder == [] C32_Order /\ <> (cli.pc = "exited")

\* setup-github threw in a create run with no skip flag: setup-aws and
\* deploy did not run and the process exited with code 1
C32_Witness ==
    /\ cli.command = "create"
    /\ cli.options = [ skipGithub |-> FALSE, skipAws |-> FALSE ]
    /\ cli.ran = << "init", "setup-github" >>
    /\ cli.threw = "setup-github"
    /\ cli.pc = "exited"
    /\ cli.exitCode = 1

\* a create run with --skip-github ran init and setup-aws only
C32_SkippedGithub ==
    /\ cli.command = "create"
    /\ cli.options.skipGithub
    /\ cli.ran = << "init", "setup-aws" >>
    /\ cli.pc = "exited"
    /\ cli.exitCode = 0

\* a setup-github run that ended by throwing left the stored configuration
\* as it was
C33_FailureKeepsConfig ==
    gh'.pc = "thrown" => stored' = stored /\ saveCount' = 0

\* C33 as stated: setup-github writes githubUsername, repo and repoUrl to the
\* persisted configuration only after repository creation, staging, commit
\* and push have all succeeded; if any of them fails the command throws and
\* the persisted configuration is unchanged, so a later setup-aws run skips
\* the IAM policy and role steps.
C33_WritesOnlyAfterSuccess ==
    [][ /\ (stored' # stored \/ saveCount' = 1) =>
             gh'.repoData = "created" /\ gh'.git = "pushed"
        /\ C33_FailureKeepsConfig
        /\ gh'.pc = "thrown" => ~IamWanted(stored') ]_vars

\* C33 amended: the configuration is written only after createRepository
\* returned a repository (the new one, or the existing one after a 422
\* answer) and staging, commit and push succeeded; a failed run throws and
\* leaves the configuration unchanged, so setup-aws skips the IAM steps
\* unless an earlier successful run had stored the repository.
C33_WritesOnlyAfterRepositoryAndPush ==
    [][ /\ (stored' # stored \/ saveCount' = 1) =>
             /\ gh'.pc = "returned"
             /\ gh'.repoData \in {"created", "exists"}
             /\ gh'.git = "pushed"
        /\ C33_FailureKeepsConfig
        /\ (gh'.pc = "thrown" /\ ~IamWanted(stored)) => ~IamWanted(stored') ]_vars

\* the push failed in the first run: nothing was saved
C33_Witness ==
    /\ gh.pc = "thrown"
    /\ gh.repoData = "created"
    /\ gh.git = "committed"
    /\ saveCount = 0
    /\ ~IamWanted(stored)

\* a run failed after an earlier run had stored the repository
C33_FailedAfterSuccess ==
    /\ gh.pc = "thrown"
    /\ IamWanted(stored)

\* the configuration was written for a repository that already existed
C33_SavedExistingRepository ==
    /\ gh.pc = "returned"
    /\ gh.repoData = "exists"
    /\ saveCount = 1

\* the answer to the last token request of the flow ("none" before the first)
LastAnswer == IF auth.answers = << >> THEN "none" ELSE auth.answers[Len(auth.answers)]

\* C34: the device-flow polling loop sleeps one interval before every token
\* request, continues on authorization_pending and slow_down, stops with
\* success at the first response without an error field, stops with failure
\* at the first expired_token or other error, sends no token request once the
\* current time has reached the device code's expiry, and ends with the
\* 'Authentication timed out' failure if authorization never arrives.
C34_PollingLoop ==
    /\ auth.sleeps = auth.requests
    /\ LastAnswer \in {"authorization_pending", "slow_down"} =>
         auth.pc = "poll" \/ auth.message = "Authentication timed out"
    /\ LastAnswer = "token" => auth.authenticated /\ auth.pc \in {"poll", "returned", "thrown"}
    /\ LastAnswer \in {"expired_token", "access_denied"} => auth.pc = "thrown"
    /\ auth.sentAt # null => auth.sentAt < auth.expiresAt
    /\ (auth.pc = "thrown" /\ auth.requests > 0 /\ ~auth.authenticated
          /\ LastAnswer = "authorization_pending") =>
         auth.message = "Authentication timed out" /\ auth.now >= auth.expiresAt

\* a slow_down answer ended the flow with a TypeError
C34_SlowDownEndsFlow ==
    /\ LastAnswer = "slow_down"
    /\ auth.pc = "thrown"
    /\ auth.message = "Assignment to constant variable."

\* a token request was sent after the device code had expired
C34_RequestAfterExpiry ==
    /\ auth.sentAt # null
    /\ auth.sentAt > auth.expiresAt

\* C35: in the polling loop every slow_down response increases the polling
\* interval by 5 seconds for all later polls, and the interval never
\* decreases during one authentication.
C35_SlowDownAddsFive ==
    auth.pc # "idle" /\ auth.interval # null =>
        /\ auth.interval = auth.asked + 5 * auth.slowDowns
        /\ auth.interval >= auth.asked

\* after a slow_down answer the interval is the one the device code came with
C35_IntervalUnchanged ==
    /\ auth.slowDowns = 1
    /\ auth.interval = auth.asked
    /\ auth.pc = "thrown"

\* what authenticate() stores for the token answer it received
StoredEntry ==
    [ auth.authData EXCEPT !.expires_at = IF @ # null THEN auth.now + @ ELSE null ]

\* C36: authenticate() stores a token in the keychain only after the device
\* flow returned a token and the user-info request succeeded, under the login
\* name returned by that request; on every failure path (device-code request
\* failure, expiry, error response, timeout, user-info failure) the keychain
\* is left unchanged and the error is rethrown.
C36_StoresOnlyAfterUserInfo ==
    [][ \* a step of authenticate(), not a getAccessToken call
        (auth.pc \in {"idle", "poll"} /\ auth'.got = auth.got) =>
          /\ keychain' # keychain =>
               /\ auth.authenticated
               /\ auth'.pc = "returned"
               /\ keychain' = [ keychain EXCEPT ![auth'.login] = StoredEntry ]
          /\ auth'.pc = "returned" =>
               keychain' = [ auth'.before EXCEPT ![auth'.login] = StoredEntry ]
          /\ auth'.pc = "thrown" =>
               /\ keychain' = auth'.before
               /\ auth'.message # "none" ]_vars

\* the user-info request failed after the token had been received: nothing
\* was stored
C36_Witness ==
    /\ auth.pc = "thrown"
    /\ auth.authenticated
    /\ auth.message = "Failed to get user info"
    /\ auth.got = NoCall
    /\ keychain = auth.before

\* a flow that stored its token under the login of the user-info answer
C36_Stored ==
    /\ auth.pc = "returned"
    /\ auth.got = NoCall
    /\ keychain[auth.login].access_token = 3
    /\ keychain # auth.before

\* C37: getAccessToken(username) returns either null or an access token that
\* is not past its recorded expiry: a stored token whose expires_at lies in
\* the past is never returned as is; it is refreshed (and the stored entry
\* replaced by the refreshed token) or null is returned, and isAuthenticated
\* is true exactly when a token is returned.
C37_NullOrFreshToken ==
    auth.got # NoCall =>
        /\ auth.got.returns # null =>
             /\ auth.got.returns # undefined
             /\ auth.got.returns = auth.got.stored.access_token
             /\ UsableToken(auth.got.stored, auth.got.at)
        /\ (auth.got.entry # NoEntry /\ auth.got.entry.expires_at # null
              /\ auth.got.at > auth.got.entry.expires_at) =>
             auth.got.returns = null \/ auth.got.stored # auth.got.entry
        /\ auth.got.isAuthenticated <=> auth.got.returns \notin {null, undefined}

\* an expired token without a refresh token was returned as it is
C37_ExpiredReturned ==
    /\ auth.got # NoCall
    /\ auth.got.entry.expires_at # null
    /\ auth.got.at > auth.got.entry.expires_at
    /\ auth.got.entry.refresh_token = null
    /\ auth.got.returns = auth.got.entry.access_token
    /\ auth.got.stored = auth.got.entry
    /\ auth.got.isAuthenticated

\* a refresh answer without an access_token: undefined is stored and
\* returned, and isAuthenticated is true
C37_UndefinedReturned ==
    /\ auth.got # NoCall
    /\ auth.got.returns = undefined
    /\ auth.got.stored.access_token = undefined
    /\ auth.got.isAuthenticated

\* an expired token was refreshed and the new token returned
C37_Refreshed ==
    /\ auth.got # NoCall
    /\ auth.got.entry.expires_at # null
    /\ auth.got.at > auth.got.entry.expires_at
    /\ auth.got.returns = 2
    /\ auth.got.stored.access_token = 2

\* the text of the live spinner
LiveText(o) == o.texts[o.spinner]

\* C38: after any sequence of logger operations at most one spinner is live:
\* startSpinner stops the previous spinner before starting a new one;
\* succeed, fail, error and success leave no live spinner; info and warn
\* leave a spinner live with the same text if and only if one was live before
\* the call.
C38_AtMostOneSpinner ==
    [][ /\ Cardinality(ora'.spinning) <= 1
        /\ ora'.spinning = IF ora'.spinner = null THEN {} ELSE { ora'.spinner }
        /\ ora'.op = "startSpinner" =>
             /\ ora'.spinner \notin {null, ora.spinner}
             /\ ora.spinner \notin ora'.spinning
        /\ ora'.op \in {"succeed", "fail", "error", "success"} => ora'.spinning = {}
        /\ ora'.op \in {"info", "warn"} =>
             /\ ora'.spinning # {} <=> ora.spinning # {}
             /\ ora'.spinning # {} => LiveText(ora') = LiveText(ora) ]_vars

\* an info or warn call restarted the live spinner as a new instance with the
\* text of the one it stopped, which a second startSpinner had replaced
C38_Witness ==
    /\ ora.op \in {"info", "warn"}
    /\ ora.spinner = 3
    /\ ora.spinning = {3}
    /\ ora.texts[3] = ora.texts[2]
    /\ ora.texts[1] # ora.texts[2]

\* C39: the deploy command completes successfully (exit code 0 and the
\* 'Changes pushed' report) only if the site build, the staging, the commit
\* and the push all succeeded; a failed push makes the command fail.
C39_DeploySucceedsOnlyAfterPush ==
    (cli.command = "deploy" /\ cli.pc = "exited") =>
        /\ (cli.exitCode = 0 /\ cli.reported) =>
             /\ cli.built = "ok"
             /\ cli.staged = "ok"
             /\ cli.committed = "ok"
             /\ cli.pushed = "ok"
        /\ cli.pushed = "failed" => cli.exitCode = 1

\* the push failed and the deploy command reported success and exited with 0
C39_FailedPushReported ==
    /\ cli.command = "deploy"
    /\ cli.pc = "exited"
    /\ cli.built = "ok" /\ cli.staged = "ok" /\ cli.committed = "ok"
    /\ cli.pushed = "failed"
    /\ cli.reported
    /\ cli.exitCode = 0

\* a failed build does make the deploy command fail
C39_FailedBuildFails ==
    /\ cli.command = "deploy"
    /\ cli.pc = "exited"
    /\ cli.built = "failed"
    /\ ~cli.reported
    /\ cli.exitCode = 1
====
